---- MODULE Spec2Model ----
(***************************************************************************)
(* Model of python/tank/folder/folder_types/entity.py: the Entity folder   *)
(* node, its top-down folder creation (_create_folders_impl), its          *)
(* bottom-up data extraction (extract_shotgun_data_upwards) and its        *)
(* path-to-entity resolution (get_entries_from_path).                      *)
(*                                                                         *)
(* Python values are tagged records so that values of different shapes     *)
(* can be compared: None, strings, integers, dicts, lists and              *)
(* FilterExpressionToken objects.  A dict is a function from key to value. *)
(***************************************************************************)
EXTENDS Integers, Sequences, FiniteSets, TLC

VARIABLES
    catalog,      \* the Shotgun site: a set of entity records
    node,         \* the Entity objects of the hierarchy, by depth
    op,           \* the public method that is running, or "idle"
    pc,           \* position inside that method
    args,         \* its arguments
    local,        \* its local variables
    queries,      \* the Shotgun API calls it has issued so far
    events,       \* the io_receiver calls it has issued so far
    outcome,      \* "none" while running, "ok", "skipped" or the exception
    result,       \* its return value
    caller        \* the map the caller passed and still holds, or None

vars == <<catalog, node, op, pc, args, local, queries, events,
          outcome, result, caller>>

-----------------------------------------------------------------------------
\* Bounds of the model

\* Shot ids 1..MaxShotId may exist on the site.
MaxShotId == 2

\* Sequence ids 1..MaxSeqId exist on the site.
MaxSeqId == 2

-----------------------------------------------------------------------------
\* Python values

None == [k |-> "nil"]

Str(s) == [k |-> "str", s |-> s]

Num(n) == [k |-> "int", n |-> n]

Dict(d) == [k |-> "dict", d |-> d]

List(l) == [k |-> "list", l |-> l]

IsDict(v) == v.k = "dict"

IsList(v) == v.k = "list"

EmptyDict == [x \in {} |-> None]

\* dict.update on two functions
DictUpdate(d, e) ==
    [f \in (DOMAIN d) \cup (DOMAIN e) |-> IF f \in DOMAIN e THEN e[f] ELSE d[f]]

\* d[key] = value
DictSet(d, key, value) == DictUpdate(d, [f \in {key} |-> value])

\* the elements of a finite set, in some fixed order
SeqOfSet(S) ==
    LET RECURSIVE build(_)
        build(T) == IF T = {} THEN <<>>
                    ELSE LET x == CHOOSE y \in T : TRUE
                         IN <<x>> \o build(T \ {x})
    IN build(S)

-----------------------------------------------------------------------------
\* The hierarchy: Project > Sequence > Shot > HumanUser

Nodes == 1..4

EntityTypes == <<"Project", "Sequence", "Shot", "HumanUser">>

\* self._parent, 0 when there is none
Parent(n) == n - 1

\* [self] + self.get_parents(), reversed: root first
ChainTo(n) == [i \in 1..n |-> i]

\* FilterExpressionToken: the level it refers to
Token(level) ==
    [k |-> "tok", key |-> EntityTypes[level], entity_type |-> EntityTypes[level]]

IsToken(v) == v.k = "tok"

\* FilterExpressionToken.get_sg_data_key
GetSgDataKey(tok) == tok.key

\* FilterExpressionToken.get_entity_type
TokenEntityType(tok) == tok.entity_type

\* FilterExpressionToken.sg_data_key_for_folder_obj: entity nodes are keyed by type
SgDataKeyForFolderObj(n) == node[n].entity_type

\* shotgun_entity.get_sg_entity_name_field
GetSgEntityNameField(entity_type) ==
    IF entity_type \in {"Project", "HumanUser"} THEN "name" ELSE "code"

\* Entity._get_additional_sg_fields
GetAdditionalSgFields(n) == {}

\* A condition of a filter
Cond(path, relation, values) ==
    [path |-> path, relation |-> relation, values |-> values]

\* An entity link as Shotgun returns it
Link(type, id, name) ==
    Dict([type |-> Str(type), id |-> Num(id), name |-> Str(name)])

-----------------------------------------------------------------------------
\* The Shotgun site

SeqCodes == <<"a", "b", "c", "d">>

ProjectRec ==
    [type |-> Str("Project"), id |-> Num(1), name |-> Str("p"),
     sg_lead |-> Link("HumanUser", 1, "u")]

SequenceRec(i) ==
    [type |-> Str("Sequence"), id |-> Num(i), code |-> Str(SeqCodes[i]),
     project |-> Link("Project", 1, "p")]

SequenceLink(i) == Link("Sequence", i, SeqCodes[i])

UserRec ==
    [type |-> Str("HumanUser"), id |-> Num(1), name |-> Str("u"),
     login |-> Str("u"), projects |-> List(<<Link("Project", 1, "p")>>)]

ShotRec(i, code, status, seq) ==
    [type |-> Str("Shot"), id |-> Num(i), code |-> Str(code),
     sg_status |-> Str(status), sg_sequence |-> seq]

\* What the sg_sequence field of a shot may hold: a sequence of the site, a
\* sequence that has been deleted, nothing, an entity of another type (the
\* field is a multi-type link), a list of links, empty or not (the
\* field is a multi-entity link), or a text.
ShotLinks ==
    {SequenceLink(i) : i \in 1..(MaxSeqId + 1)}
        \cup {None, Link("Project", 1, "p")}
        \cup {List(<<>>), List(<<SequenceLink(1)>>), Str("a")}

\* The first shot takes any link; the others are siblings in the first sequence.
ShotChoices(i) ==
    IF i = 1
    THEN {ShotRec(1, "x", "ip", l) : l \in ShotLinks}
    ELSE IF i = 2
    THEN {ShotRec(i, "y", "ip", SequenceLink(1)),
          ShotRec(i, "x", "fin", SequenceLink(1))}
    ELSE {ShotRec(i, "y", "ip", SequenceLink(1))}

\* The sites of the model: the project, the sequences, the user and, for
\* every shot id, one shot or none.
Sites ==
    LET shotSets ==
            {S \in SUBSET (UNION {ShotChoices(i) : i \in 1..MaxShotId}) :
                \A r, q \in S : r.id = q.id => r = q}
    IN {{ProjectRec, UserRec} \cup {SequenceRec(i) : i \in 1..MaxSeqId} \cup S :
            S \in shotSets}

\* what login.get_current_user may return
CurrentUsers == {None, Dict(UserRec)}

\* Two values denote the same thing for the site: entities by type and id
ValEq(a, b) ==
    IF IsDict(a) /\ IsDict(b)
    THEN /\ {"type", "id"} \subseteq DOMAIN a.d
         /\ {"type", "id"} \subseteq DOMAIN b.d
         /\ a.d.type = b.d.type
         /\ a.d.id = b.d.id
    ELSE a = b

\* A record satisfies a condition: its field is one of the values, or is a
\* list that holds one of them
CondMatch(rec, cond) ==
    /\ cond.path \in DOMAIN rec
    /\ \E i \in DOMAIN cond.values :
          \/ ValEq(rec[cond.path], cond.values[i])
          \/ /\ IsList(rec[cond.path])
             /\ \E j \in DOMAIN rec[cond.path].l :
                    ValEq(rec[cond.path].l[j], cond.values[i])

FilterMatch(rec, filters) ==
    IF filters.logical_operator = "or"
    THEN \E i \in DOMAIN filters.conditions : CondMatch(rec, filters.conditions[i])
    ELSE \A i \in DOMAIN filters.conditions : CondMatch(rec, filters.conditions[i])

\* The records of a set, by ascending id
SortById(S) ==
    LET RECURSIVE build(_)
        build(T) == IF T = {} THEN <<>>
                    ELSE LET x == CHOOSE y \in T : \A z \in T : y.id.n <= z.id.n
                         IN <<x>> \o build(T \ {x})
    IN build(S)

\* What the site returns for a record: the fields asked for, type and id
Project(rec, fields) ==
    Dict([f \in ((fields \cap DOMAIN rec) \cup {"type", "id"}) |-> rec[f]])

\* sg.find(entity_type, filters, fields)
Find(site, entity_type, filters, fields) ==
    LET hits == {r \in site : r.type = Str(entity_type) /\ FilterMatch(r, filters)}
        sorted == SortById(hits)
    IN [i \in 1..Len(sorted) |-> Project(sorted[i], fields)]

\* sg.find_one(entity_type, filters, fields)
FindOne(site, entity_type, filters, fields) ==
    LET found == Find(site, entity_type, filters, fields)
    IN IF found = <<>> THEN None ELSE found[1]

\* The record of a call to the site and of what it returned
Call(method, entity_type, filters, fields, returned) ==
    [method |-> method, entity_type |-> entity_type,
     conditions |-> filters.conditions, fields |-> fields,
     returned |-> returned]

\* the filter { "logical_operator": "and", "conditions": conds }
AndFilter(conds) == [logical_operator |-> "and", conditions |-> conds]

-----------------------------------------------------------------------------
\* The configuration of the hierarchy

\* shotgun_entity.EntityExpression: the fields of the name pattern in the
\* order of the pattern, and those of them that are entity links
Expression(fields, links) == [fields |-> fields, links |-> links]

\* EntityExpression.get_shotgun_fields
GetShotgunFields(expr) == {expr.fields[i] : i \in DOMAIN expr.fields}

\* EntityExpression.get_shotgun_link_fields
GetShotgunLinkFields(expr) == expr.links

\* the filters of the Shot level, as translate_filter_tokens leaves them
ShotFilters ==
    {<<Cond("sg_sequence", "is", <<Token(2)>>)>>,
     <<Cond("sg_sequence", "is", <<Token(2)>>),
       Cond("sg_status", "is", <<Str("ip")>>)>>,
     <<Cond("sg_sequence", "in", <<SequenceLink(MaxSeqId), Token(2)>>)>>,
     <<Cond("sg_status", "in", <<Str("ip"), Str("fin")>>)>>}

\* the name patterns of the Shot level: {code}, {sg_status}_{code}, {sg_sequence}_{code}
ShotExpressions ==
    {Expression(<<"code">>, {}),
     Expression(<<"sg_status", "code">>, {}),
     Expression(<<"sg_sequence", "code">>, {"sg_sequence"})}

\* the configurations of the Shot level that the model covers
ShotConfigs ==
    {<<f, e>> \in ShotFilters \X ShotExpressions :
        \/ e = Expression(<<"code">>, {})
        \/ f = <<Cond("sg_sequence", "is", <<Token(2)>>)>>}

\* Entity.__init__
Entity(entity_type, expression, conditions, create_with_parent) ==
    [entity_type |-> entity_type,
     expression |-> expression,
     filters |-> AndFilter(conditions),
     create_with_parent |-> create_with_parent]

\* The hierarchy for one configuration of the Shot level
Hierarchy(shotConfig, create_with_parent) ==
    <<Entity("Project", Expression(<<"name">>, {}), <<>>, create_with_parent),
      Entity("Sequence", Expression(<<"code">>, {}),
             <<Cond("project", "is", <<Token(1)>>)>>, create_with_parent),
      Entity("Shot", shotConfig[2], shotConfig[1], create_with_parent),
      Entity("HumanUser", Expression(<<"login">>, {}), <<>>, create_with_parent)>>

\* The fields of the name only
RequiredFieldsOfName(n) == GetShotgunFields(node[n].expression)

\* The hierarchies of the model: one for every configuration of the Shot
\* level, with the flag on or off at every level; one whose Project level
\* is named {sg_lead}_{name}, sg_lead being a link to a user; and one whose
\* HumanUser level has the filter [projects is $project]
Hierarchies ==
    LET plain == Hierarchy(<<<<Cond("sg_sequence", "is", <<Token(2)>>)>>,
                             Expression(<<"code">>, {})>>, FALSE)
    IN {Hierarchy(c, b) : c \in ShotConfigs, b \in BOOLEAN}
          \cup {[plain EXCEPT ![1].expression =
                                  Expression(<<"sg_lead", "name">>, {"sg_lead"})],
                [plain EXCEPT ![3].filters =
                                  AndFilter(<<Cond("sg_sequence", "is", <<Token(2)>>),
                                              Cond("$FROM$Task.step.entity", "is",
                                                   <<Token(1)>>),
                                              Cond("sg_status", "is",
                                                   <<Str("ip")>>)>>)],
                [plain EXCEPT ![4].filters =
                                  AndFilter(<<Cond("projects", "is", <<Token(1)>>)>>)]}

\* The fields a node fetches: those of the name, its links, the name field
\* of the entity type and the additional fields
RequiredFields(n) ==
    GetShotgunFields(node[n].expression)
        \cup GetShotgunLinkFields(node[n].expression)
        \cup {GetSgEntityNameField(node[n].entity_type)}
        \cup GetAdditionalSgFields(n)

\* the string a field value contributes to a folder name
RenderValue(v) ==
    IF v.k = "str" THEN v.s
    ELSE IF IsDict(v) /\ "name" \in DOMAIN v.d THEN v.d.name.s
    ELSE IF IsList(v) /\ v.l # <<>> THEN v.l[1].d.name.s
    ELSE ""

\* the values joined by the separator of the pattern
JoinNames(strs) ==
    LET RECURSIVE join(_)
        join(i) == IF i > Len(strs) THEN ""
                   ELSE IF i = Len(strs) THEN strs[i]
                   ELSE strs[i] \o "_" \o join(i + 1)
    IN join(1)

\* EntityExpression.generate_name: fails on a field without a value
GenerateName(expr, entity) ==
    IF \E i \in DOMAIN expr.fields :
           \/ expr.fields[i] \notin DOMAIN entity
           \/ entity[expr.fields[i]] = None
           \/ entity[expr.fields[i]] = List(<<>>)
    THEN [exc |-> "TankError:name", name |-> ""]
    ELSE [exc |-> "none",
          name |-> JoinNames([i \in DOMAIN expr.fields |->
                                 RenderValue(entity[expr.fields[i]])])]

\* os.path.sep
OsSep == "/"

\* folder_name.replace("/", os.path.sep): the names of the model hold no "/"
ReplaceSep(name) == name

\* os.path.join(parent_path, folder_name): a path is the sequence of its folders
PathJoin(parent_path, folder_name) == Append(parent_path, folder_name)

\* util.resolve_shotgun_filters: every token is replaced by the record of
\* its level in sg_data; a level that is not in sg_data is an error
ResolveShotgunFilters(filters, sg_data) ==
    LET conds == filters.conditions
        missing == \E i \in DOMAIN conds : \E j \in DOMAIN conds[i].values :
                       /\ IsToken(conds[i].values[j])
                       /\ GetSgDataKey(conds[i].values[j]) \notin DOMAIN sg_data
        resolve(v) == IF IsToken(v) THEN sg_data[GetSgDataKey(v)] ELSE v
    IN IF missing
       THEN [exc |-> "TankError:token", filters |-> filters]
       ELSE [exc |-> "none",
             filters |->
                 [filters EXCEPT !.conditions =
                     [i \in DOMAIN conds |->
                         [conds[i] EXCEPT !.values =
                             [j \in DOMAIN conds[i].values |->
                                 resolve(conds[i].values[j])]]]]]

-----------------------------------------------------------------------------
\* Entity._should_item_be_processed and Entity.__get_entities

\* Folder._should_item_be_processed: no deferred creation is configured
BaseShouldItemBeProcessed(n, engine_str, is_primary) == TRUE

\* The check of the flag without regard to the primary node
ShouldItemBeProcessedByFlag(n, engine_str, is_primary) ==
    IF node[n].create_with_parent = FALSE
    THEN FALSE
    ELSE BaseShouldItemBeProcessed(n, engine_str, is_primary)

\* Entity._should_item_be_processed
ShouldItemBeProcessed(n, engine_str, is_primary) ==
    IF is_primary = FALSE /\ node[n].create_with_parent = FALSE
    THEN FALSE
    ELSE BaseShouldItemBeProcessed(n, engine_str, is_primary)

\* The subset test of the fields taken the wrong way round
IsSupersetOfValue(fields, value) ==
    IF IsDict(value) THEN DOMAIN value.d \subseteq fields
    ELSE fields = {}

\* The test that never finds the fields: every level is looked up
IsNeverSubsetOfValue(fields, value) == FALSE

\* fields.issubset(value): the keys of a dict, the elements of a list
IsSubsetOfValue(fields, value) ==
    IF IsDict(value) THEN fields \subseteq DOMAIN value.d
    ELSE fields = {}

\* The result of a method that raises before it asks for the current user
RaiseUnasked(exc, calls, asked) ==
    [exc |-> exc, entities |-> <<>>, calls |-> calls, asked |-> FALSE]

\* The result of a method that raises or returns
Raise(exc, calls, asked) ==
    [exc |-> exc, entities |-> <<>>, calls |-> calls, asked |-> asked]

\* Entity.__get_entities; user is what login.get_current_user answers when
\* it is asked
GetEntities(n, sg_data, user) ==
    LET resolved == ResolveShotgunFilters(node[n].filters, sg_data)
        fields == RequiredFields(n)
        my_sg_data_key == SgDataKeyForFolderObj(n)
        asked == node[n].entity_type = "HumanUser" /\ my_sg_data_key \notin DOMAIN sg_data
        tokens == IF asked THEN DictSet(sg_data, my_sg_data_key, user) ELSE sg_data
        seed == tokens[my_sg_data_key]
        byId == [resolved.filters EXCEPT !.conditions =
                    Append(@, Cond("id", "is", <<seed.d.id>>))]
    IN IF resolved.exc # "none" THEN Raise(resolved.exc, <<>>, FALSE)
       ELSE IF asked /\ user = None THEN Raise("TankError:user", <<>>, TRUE)
       ELSE IF my_sg_data_key \in DOMAIN tokens
       THEN IF IsSubsetOfValue(fields, seed)
            THEN [exc |-> "none", entities |-> <<seed>>, calls |-> <<>>,
                  asked |-> asked]
            ELSE IF ~IsDict(seed) THEN Raise("TypeError", <<>>, asked)
            ELSE IF "id" \notin DOMAIN seed.d THEN Raise("KeyError", <<>>, asked)
            ELSE [exc |-> "none",
                  entities |-> Find(catalog, node[n].entity_type, byId, fields),
                  calls |-> <<Call("find", node[n].entity_type, byId, fields,
                                   List(Find(catalog, node[n].entity_type, byId, fields)))>>,
                  asked |-> asked]
       ELSE [exc |-> "none",
             entities |-> Find(catalog, node[n].entity_type, resolved.filters, fields),
             calls |-> <<Call("find", node[n].entity_type, resolved.filters, fields,
                              List(Find(catalog, node[n].entity_type,
                                        resolved.filters, fields)))>>,
             asked |-> asked]

-----------------------------------------------------------------------------
\* Entity._create_folders_impl

\* the io_receiver calls
SinkEvent(name, path, data) == [event |-> name, path |-> path, data |-> data]

\* Entity._register_secondary_entities
RegisterSecondaryEntities(n, path, entity) ==
    LET links == SeqOfSet(GetShotgunLinkFields(node[n].expression))
    IN [i \in DOMAIN links |->
           SinkEvent("register_secondary_entity", path, entity[links[i]])]

\* One turn of the loop over the entities: the io_receiver calls it makes,
\* the item it appends and the exception it raises, if any
CreateOneFolder(n, parent_path, sg_data, entity) ==
    LET generated == GenerateName(node[n].expression, entity.d)
        folder_name == ReplaceSep(generated.name)
        my_path == PathJoin(parent_path, folder_name)
        name_field == GetSgEntityNameField(node[n].entity_type)
        full_entity_dict == Dict([type |-> Str(node[n].entity_type),
                                  id |-> entity.d.id,
                                  name |-> entity.d[name_field]])
        made == RegisterSecondaryEntities(n, my_path, entity.d)
                    \o <<SinkEvent("make_entity_folder", my_path, full_entity_dict),
                         SinkEvent("copy_files", my_path, None)>>
        my_sg_data_key == SgDataKeyForFolderObj(n)
        updated == DictSet(DictUpdate(sg_data[my_sg_data_key].d, entity.d),
                           "computed_name", Str(folder_name))
        my_sg_data == DictSet(sg_data, my_sg_data_key, Dict(updated))
    IN IF generated.exc # "none"
       THEN [exc |-> generated.exc, events |-> <<>>, item |-> <<>>]
       ELSE IF my_sg_data_key \notin DOMAIN sg_data
       THEN [exc |-> "KeyError", events |-> made, item |-> <<>>]
       ELSE IF ~IsDict(sg_data[my_sg_data_key])
       THEN [exc |-> "AttributeError", events |-> made, item |-> <<>>]
       ELSE [exc |-> "none",
             events |-> Append(made, SinkEvent("process_symlinks", my_path,
                                               Dict(my_sg_data))),
             item |-> <<my_path, my_sg_data>>]

-----------------------------------------------------------------------------
\* Entity.extract_shotgun_data_upwards

\* condition["path"].startswith('$FROM$')
StartsWithFrom(path) == path \in {"$FROM$Task.step.entity"}

\* The conditions the loop over self._filters["conditions"] looks at
ConsideredConditions(n) ==
    SelectSeq(node[n].filters.conditions,
              LAMBDA c : Len(c.values) # 0 /\ ~StartsWithFrom(c.path))

\* filters: the conditions whose first value is no token
PlainConditions(n) ==
    SelectSeq(ConsideredConditions(n), LAMBDA c : ~IsToken(c.values[1]))

\* link_map: for the conditions whose first value is a token, in the order
\* of the conditions, the path and the token last stored under it
LinkMap(n) ==
    LET conds == SelectSeq(ConsideredConditions(n), LAMBDA c : IsToken(c.values[1]))
        last(i) == \A j \in DOMAIN conds : conds[j].path = conds[i].path => j <= i
        kept == SelectSeq([i \in DOMAIN conds |-> [i |-> i, c |-> conds[i]]],
                          LAMBDA e : last(e.i))
    IN [i \in DOMAIN kept |->
           [field |-> kept[i].c.path, link_obj |-> kept[i].c.values[1]]]

\* The fields of the linked conditions only
ExtractFieldsOfLinks(n) == {LinkMap(n)[i].field : i \in DOMAIN LinkMap(n)}

\* the fields of the level: those of folder creation and the linked fields
ExtractFields(n) ==
    RequiredFields(n) \cup {LinkMap(n)[i].field : i \in DOMAIN LinkMap(n)}

\* The body of the loop storing nothing
PromoteLinkNowhere(n, tokens, entry) == [exc |-> "none", tokens |-> tokens]

\* The body of the loop merging a link without looking at its type
PromoteLinkUnchecked(n, tokens, entry) ==
    LET mine == tokens[SgDataKeyForFolderObj(n)]
        data_key == GetSgDataKey(entry.link_obj)
        value == IF entry.field \in DOMAIN mine.d THEN mine.d[entry.field] ELSE None
    IN IF value = None THEN [exc |-> "EntityLinkTypeMismatch", tokens |-> tokens]
       ELSE IF IsDict(value) /\ data_key \in DOMAIN tokens /\ IsDict(tokens[data_key])
       THEN [exc |-> "none",
             tokens |-> DictSet(tokens, data_key,
                                Dict(DictUpdate(tokens[data_key].d, value.d)))]
       ELSE [exc |-> "none", tokens |-> DictSet(tokens, data_key, value)]

\* The body of the loop over link_map for one field: the value of the field
\* is promoted to the entry of the level the token refers to
\* The promotion that refuses a slot that is already there
PromoteLinkOnce(n, tokens, entry) ==
    IF GetSgDataKey(entry.link_obj) \in DOMAIN tokens
    THEN [exc |-> "KeyError", tokens |-> tokens]
    ELSE PromoteLinkUnchecked(n, tokens, entry)

PromoteLink(n, tokens, entry) ==
    LET my_sg_data_key == SgDataKeyForFolderObj(n)
        data_key == GetSgDataKey(entry.link_obj)
        mine == tokens[my_sg_data_key]
        value == IF entry.field \in DOMAIN mine.d THEN mine.d[entry.field] ELSE None
        slot == tokens[data_key]
    IN IF ~IsDict(mine) THEN [exc |-> "AttributeError", tokens |-> tokens]
       ELSE IF value = None THEN [exc |-> "EntityLinkTypeMismatch", tokens |-> tokens]
       ELSE IF IsDict(value)
       THEN IF "type" \notin DOMAIN value.d
            THEN [exc |-> "KeyError", tokens |-> tokens]
            ELSE IF value.d.type # Str(TokenEntityType(entry.link_obj))
            THEN [exc |-> "EntityLinkTypeMismatch", tokens |-> tokens]
            ELSE IF data_key \notin DOMAIN tokens
            THEN [exc |-> "none", tokens |-> DictSet(tokens, data_key, value)]
            ELSE IF ~IsDict(slot)
            THEN [exc |-> "AttributeError", tokens |-> tokens]
            ELSE [exc |-> "none",
                  tokens |-> DictSet(tokens, data_key,
                                     Dict(DictUpdate(slot.d, value.d)))]
       ELSE IF IsList(value)
       THEN IF data_key \notin DOMAIN tokens
            THEN [exc |-> "none", tokens |-> DictSet(tokens, data_key, value)]
            ELSE IF ~IsList(slot)
            THEN [exc |-> "AttributeError", tokens |-> tokens]
            ELSE [exc |-> "none",
                  tokens |-> DictSet(tokens, data_key, List(slot.l \o value.l))]
       ELSE [exc |-> "none", tokens |-> DictSet(tokens, data_key, value)]

\* the loop over link_map
PromoteLinks(n, tokens) ==
    LET RECURSIVE loop(_, _)
        loop(i, t) ==
            IF i > Len(LinkMap(n)) THEN [exc |-> "none", tokens |-> t]
            ELSE LET step == PromoteLink(n, t, LinkMap(n)[i])
                 IN IF step.exc # "none" THEN step ELSE loop(i + 1, step.tokens)
    IN loop(1, tokens)

\* The two errors of a missing record taken for each other
MissingRecordErrorSwapped(bare) ==
    IF bare = None THEN "EntityLinkTypeMismatch" ELSE "TankError:notfound"

\* find_one returned nothing: the id does not exist, or the filters of the
\* node have filtered the record out
MissingRecordError(bare) ==
    IF bare = None THEN "TankError:notfound" ELSE "EntityLinkTypeMismatch"

\* The method on one node, up to the call on the parent: the exception it
\* raises or the tokens it hands on, and the calls to the site it makes
ExtractNode(n, shotgun_data, user) ==
    LET my_sg_data_key == SgDataKeyForFolderObj(n)
        asked == /\ node[n].entity_type = "HumanUser"
                 /\ my_sg_data_key \notin DOMAIN shotgun_data
        seeded == IF asked THEN DictSet(shotgun_data, my_sg_data_key, user)
                  ELSE shotgun_data
        mine == seeded[my_sg_data_key]
        fields == ExtractFields(n)
        byId == Cond("id", "is", <<mine.d.id>>)
        filter_dict == AndFilter(Append(PlainConditions(n), byId))
        rec == FindOne(catalog, node[n].entity_type, filter_dict, fields)
        bare == FindOne(catalog, node[n].entity_type, AndFilter(<<byId>>), {})
        first == Call("find_one", node[n].entity_type, filter_dict, fields, rec)
        second == Call("find_one", node[n].entity_type, AndFilter(<<byId>>), {}, bare)
        updated == DictSet(seeded, my_sg_data_key, Dict(DictUpdate(mine.d, rec.d)))
        fail(exc, calls) == [exc |-> exc, tokens |-> shotgun_data,
                             calls |-> calls, asked |-> asked]
        promote(t, calls) == LET p == PromoteLinks(n, t)
                             IN [exc |-> p.exc, tokens |-> p.tokens,
                                 calls |-> calls, asked |-> asked]
    IN IF asked /\ user = None THEN fail("TankError:user", <<>>)
       ELSE IF my_sg_data_key \notin DOMAIN seeded
       THEN [exc |-> "none", tokens |-> seeded, calls |-> <<>>, asked |-> asked]
       ELSE IF IsSubsetOfValue(fields, mine) THEN promote(seeded, <<>>)
       ELSE IF ~IsDict(mine) THEN fail("TypeError", <<>>)
       ELSE IF "id" \notin DOMAIN mine.d THEN fail("KeyError", <<>>)
       ELSE IF rec # None THEN promote(updated, <<first>>)
       ELSE fail(MissingRecordError(bare), <<first, second>>)

-----------------------------------------------------------------------------
\* Entity.get_entries_from_path and Entity.get_entity_from_fields

\* The template key of a field of a level: named by entity type and field
TemplateKey(entity_type, field_name) ==
    [name |-> entity_type \o "." \o field_name,
     shotgun_entity_type |-> entity_type,
     shotgun_field_name |-> field_name]

\* Entity._create_template_keys
CreateTemplateKeys(n) ==
    {TemplateKey(node[n].entity_type, f) : f \in GetShotgunFields(node[n].expression)}

\* self.template_path.keys: the keys of the level and of the levels above
TemplatePathKeys(n) == UNION {CreateTemplateKeys(i) : i \in 1..n}

\* the strings a field contributes to a folder name on the sites of the model
FieldStrings ==
    {"p", "u", "x", "y", "ip", "fin"} \cup {SeqCodes[i] : i \in DOMAIN SeqCodes}

\* The values of the fields of a name pattern that give a folder name
DecodeName(expr, name) ==
    {fm \in [GetShotgunFields(expr) -> FieldStrings] :
        JoinNames([i \in DOMAIN expr.fields |-> fm[expr.fields[i]]]) = name}

\* TemplatePath.get_fields on the template of node n: the value of every
\* key, or an error when the path does not match the template
TemplateGetFields(n, input_path) ==
    LET fits == /\ Len(input_path) = n
                /\ \A i \in 1..n : DecodeName(node[i].expression, input_path[i]) # {}
        decoded(i) == CHOOSE fm \in DecodeName(node[i].expression, input_path[i]) : TRUE
        level(key) == CHOOSE i \in 1..n : node[i].entity_type = key.shotgun_entity_type
    IN IF ~fits THEN [exc |-> "TankError:template", fields |-> EmptyDict]
       ELSE [exc |-> "none",
             fields |-> [name \in {key.name : key \in TemplatePathKeys(n)} |->
                            LET key == CHOOSE q \in TemplatePathKeys(n) : q.name = name
                            IN Str(decoded(level(key))[key.shotgun_field_name])]]

\* TemplatePath.apply_fields on the template of node n
TemplateApplyFields(n, path_fields) ==
    [i \in 1..n |->
        JoinNames([j \in DOMAIN node[i].expression.fields |->
            path_fields[TemplateKey(node[i].entity_type,
                                    node[i].expression.fields[j]).name].s])]

\* The keys the loop over path_fields.keys() may stop at: those of the
\* template of the node that are bound to its entity type
EntityKeys(n, path_fields) ==
    {key \in TemplatePathKeys(n) :
        /\ key.name \in DOMAIN path_fields
        /\ key.shotgun_entity_type = node[n].entity_type}

\* The method storing what the lookup returned before it tests it
GetEntityFromFieldsStoringFirst(n, path_fields, sg_data, key) ==
    LET entity_type == node[n].entity_type
        resolved == ResolveShotgunFilters(node[n].filters, sg_data)
        resolved_filters ==
            [resolved.filters EXCEPT !.conditions =
                Append(@, Cond(key.shotgun_field_name, "is",
                               <<path_fields[key.name]>>))]
        fields == RequiredFields(n)
        entity == FindOne(catalog, entity_type, resolved_filters, fields)
        call == Call("find_one", entity_type, resolved_filters, fields, entity)
    IN IF EntityKeys(n, path_fields) = {}
       THEN [exc |-> "TankError:path", entity |-> None, sg_data |-> sg_data,
             calls |-> <<>>]
       ELSE IF resolved.exc # "none"
       THEN [exc |-> resolved.exc, entity |-> None, sg_data |-> sg_data,
             calls |-> <<>>]
       ELSE [exc |-> IF entity = None THEN "TankError:lookup" ELSE "none",
             entity |-> entity,
             sg_data |-> DictSet(sg_data, entity_type, entity),
             calls |-> <<call>>]

\* Entity.get_entity_from_fields; key is the key the loop stops at: the
\* exception it raises, or the entity it returns and the sg_data it leaves
GetEntityFromFields(n, path_fields, sg_data, key) ==
    LET entity_type == node[n].entity_type
        resolved == ResolveShotgunFilters(node[n].filters, sg_data)
        resolved_filters ==
            [resolved.filters EXCEPT !.conditions =
                Append(@, Cond(key.shotgun_field_name, "is",
                               <<path_fields[key.name]>>))]
        fields == RequiredFields(n)
        entity == FindOne(catalog, entity_type, resolved_filters, fields)
        call == Call("find_one", entity_type, resolved_filters, fields, entity)
        fail(exc, calls) == [exc |-> exc, entity |-> None, sg_data |-> sg_data,
                             calls |-> calls]
    IN IF EntityKeys(n, path_fields) = {} THEN fail("TankError:path", <<>>)
       ELSE IF resolved.exc # "none" THEN fail(resolved.exc, <<>>)
       ELSE IF entity = None THEN fail("TankError:lookup", <<call>>)
       ELSE [exc |-> "none", entity |-> entity,
             sg_data |-> DictSet(sg_data, entity_type, entity),
             calls |-> <<call>>]

\* An entry of the result of get_entries_from_path
Entry(entity, path, primary) ==
    [entity |-> entity, path |-> path, primary |-> primary]

\* The body of the loop of get_entries_from_path on self = n for one
\* folder_obj, got being what get_entity_from_fields did: the exception it
\* raises, or the entries it appends
EntriesOfFolderObj(n, folder_obj, path_fields, got) ==
    LET entity == got.entity.d
        name_field == GetSgEntityNameField(entity.type.s)
        entity_dict == Dict([type |-> entity.type, id |-> entity.id,
                             name |-> entity[name_field]])
        local_path == TemplateApplyFields(folder_obj, path_fields)
        links == SeqOfSet(GetShotgunLinkFields(node[n].expression))
        fail(exc) == [exc |-> exc, sg_data |-> got.sg_data, calls |-> got.calls,
                      entries |-> <<>>, secondary_entries |-> <<>>]
    IN IF got.exc # "none" THEN fail(got.exc)
       ELSE IF name_field \notin DOMAIN entity THEN fail("KeyError")
       ELSE IF \E i \in DOMAIN links : links[i] \notin DOMAIN entity
       THEN fail("KeyError")
       ELSE [exc |-> "none", sg_data |-> got.sg_data, calls |-> got.calls,
             entries |-> <<Entry(entity_dict, local_path, TRUE)>>,
             secondary_entries |->
                 [i \in DOMAIN links |-> Entry(entity[links[i]], local_path, FALSE)]]

-----------------------------------------------------------------------------
\* The arguments the methods are called with

\* the records of one entity type on the site
SiteRecords(entity_type) == {r \in catalog : r.type = Str(entity_type)}

\* The entry of a level as folder creation leaves it: the fields of the
\* record and the folder name
CreatedSlots(n) ==
    {Dict(DictSet(Project(r, RequiredFields(n)).d, "computed_name",
                  Str(GenerateName(node[n].expression, r).name))) :
        r \in {q \in SiteRecords(node[n].entity_type) :
                  GenerateName(node[n].expression, q).exc = "none"}}

\* The sg_data of the levels above n, after folder creation went through them
AncestorData(n) ==
    LET RECURSIVE maps(_)
        maps(i) == IF i = 0 THEN {EmptyDict}
                   ELSE {DictSet(m, node[i].entity_type, slot) :
                            m \in maps(i - 1), slot \in CreatedSlots(i)}
    IN maps(n - 1)

\* The folder the levels above n were created in
ParentPathOf(n, sg_data) ==
    LET default == <<"p", "a", "x">>
    IN [i \in 1..(n - 1) |->
           IF node[i].entity_type \in DOMAIN sg_data
           THEN sg_data[node[i].entity_type].d.computed_name.s
           ELSE default[i]]

\* the ids a seed may name: those of the site and one that is not on it
SeedIds(n) == IF node[n].entity_type = "Shot" THEN 1..(MaxShotId + 1) ELSE {1}

\* A seed of level n: its identity only
IdentitySeeds(n) ==
    {Dict([type |-> Str(node[n].entity_type), id |-> Num(i)]) : i \in SeedIds(n)}

\* A seed of level n holding every field the level needs
FullSeeds(n) ==
    {Project(r, RequiredFields(n)) : r \in SiteRecords(node[n].entity_type)}

\* The sg_data create_folders is called with at level n: the levels above
\* or nothing, and for the level itself nothing or a seed
CreateFoldersData(n) ==
    LET above == AncestorData(n) \cup {EmptyDict}
    IN above \cup {DictSet(m, node[n].entity_type, seed) :
                      m \in above, seed \in IdentitySeeds(n) \cup FullSeeds(n)}

\* A seed of level n holding every field upward extraction needs
ExtractedSeeds(n) ==
    {Project(r, ExtractFields(n)) : r \in SiteRecords(node[n].entity_type)}

\* The shotgun_data extract_shotgun_data_upwards is called with on node n:
\* a seed for the level, alone or with the identity of one level above it,
\* or, at the user level, a seed for the shot only, or, at the shot level,
\* the identity of the shot with a list or a text in the slot of the
\* sequence
ExtractData(n) ==
    LET own == {DictSet(EmptyDict, node[n].entity_type, seed) :
                   seed \in IdentitySeeds(n) \cup ExtractedSeeds(n)}
        plain == {DictSet(EmptyDict, node[n].entity_type, seed) :
                     seed \in IdentitySeeds(n)}
        above == UNION {{DictSet(m, node[i].entity_type, seed) :
                            m \in plain,
                            seed \in {Dict([type |-> Str(node[i].entity_type),
                                            id |-> Num(j)]) :
                                         j \in IF i = 2 THEN 1..MaxSeqId ELSE {1}}} :
                        i \in 1..(n - 1)}
        below == IF n = 4
                 THEN {DictSet(EmptyDict, "Shot", seed) : seed \in IdentitySeeds(3)}
                 ELSE {}
        shaped == IF n = 3
                  THEN {DictSet(DictSet(EmptyDict, "Shot",
                                        Dict([type |-> Str("Shot"), id |-> Num(1)])),
                                "Sequence", slot) :
                           slot \in {List(<<SequenceLink(2)>>), Str("b")}}
                  ELSE {}
    IN own \cup above \cup below \cup shaped

-----------------------------------------------------------------------------
\* The state machine

NoLocal == EmptyDict

Init ==
    /\ catalog \in Sites
    /\ node \in Hierarchies
    /\ op = "idle"
    /\ pc = "idle"
    /\ args = EmptyDict
    /\ local = NoLocal
    /\ queries = <<>>
    /\ events = <<>>
    /\ outcome = "none"
    /\ result = None
    /\ caller = None

\* The method ends: it returns a value or raises
Done(how, value) ==
    /\ pc' = "done"
    /\ outcome' = how
    /\ result' = value

\* self._filters sharing its list of conditions with the filters the last
\* query was made with
FiltersSharedWithQuery(n, calls) ==
    IF calls = <<>> THEN node[n].filters
    ELSE [node[n].filters EXCEPT !.conditions = calls[Len(calls)].conditions]

\* self._filters after resolve_shotgun_filters and the append to what it
\* returned: the resolved filters are a copy, and the condition on the id or
\* on the field of the path goes to the copy
FiltersAfterResolve(n, calls) == node[n].filters

\* self._filters after the loop over its conditions in
\* extract_shotgun_data_upwards: the conditions kept for the query and the
\* condition on the id go to a list of the method's own
FiltersAfterExtract(n, calls) == node[n].filters

\* The caller's map sharing its storage with the map the method writes to
Shared(held, written) == written

\* copy.deepcopy: the method writes to a copy of the map, and the map the
\* caller holds keeps its value
Deepcopied(held, written) == held

\* Folder.create_folders calling Entity._create_folders_impl, up to the
\* loop over the entities
CreateFolders(n, sg_data, is_primary, user) ==
    /\ op = "idle"
    /\ op' = "create"
    /\ args' = [n |-> n, sg_data |-> sg_data, is_primary |-> is_primary,
                parent_path |-> ParentPathOf(n, sg_data)]
    /\ events' = <<>>
    /\ IF ~ShouldItemBeProcessed(n, "none", is_primary)
       THEN /\ Done("skipped", None)
            /\ queries' = <<>>
            /\ local' = [processed |-> FALSE]
            /\ caller' = sg_data
            /\ UNCHANGED node
       ELSE \E got \in {GetEntities(n, sg_data, user)} :
               /\ queries' = got.calls
               /\ node' = [node EXCEPT ![n].filters =
                                         FiltersAfterResolve(n, got.calls)]
               /\ caller' = Deepcopied(sg_data,
                                IF got.asked /\ user # None
                                THEN DictSet(sg_data, SgDataKeyForFolderObj(n), user)
                                ELSE sg_data)
               /\ local' = [processed |-> TRUE, entities |-> got.entities,
                            idx |-> 1, items_created |-> <<>>,
                            asked |-> got.asked]
               /\ IF got.exc # "none"
                  THEN Done(got.exc, None)
                  ELSE /\ pc' = "loop"
                       /\ UNCHANGED <<outcome, result>>
    /\ UNCHANGED catalog

\* One turn of the loop of _create_folders_impl
CreateFoldersEntity ==
    /\ op = "create"
    /\ pc = "loop"
    /\ local.idx <= Len(local.entities)
    /\ \E one \in {CreateOneFolder(args.n, args.parent_path, args.sg_data,
                                   local.entities[local.idx])} :
          /\ events' = events \o one.events
          /\ caller' = Deepcopied(caller, IF one.exc = "none"
                                          THEN one.item[2] ELSE caller)
          /\ IF one.exc # "none"
             THEN /\ Done(one.exc, None)
                  /\ UNCHANGED local
             ELSE /\ local' = [local EXCEPT !.idx = @ + 1,
                                            !.items_created = Append(@, one.item)]
                  /\ UNCHANGED <<pc, outcome, result>>
    /\ UNCHANGED <<catalog, node, op, args, queries>>

\* return items_created
CreateFoldersReturn ==
    /\ op = "create"
    /\ pc = "loop"
    /\ local.idx > Len(local.entities)
    /\ Done("ok", List(local.items_created))
    /\ UNCHANGED <<catalog, node, op, args, local, queries, events, caller>>

\* The caller calls extract_shotgun_data_upwards on node n
ExtractShotgunDataUpwards(n, shotgun_data) ==
    /\ op = "idle"
    /\ op' = "extract"
    /\ pc' = "visit"
    /\ args' = [n |-> n, shotgun_data |-> shotgun_data]
    /\ local' = [cur |-> n, tokens |-> shotgun_data, visited |-> <<>>,
                 asked |-> FALSE]
    /\ queries' = <<>>
    /\ events' = <<>>
    /\ caller' = shotgun_data
    /\ UNCHANGED <<catalog, node, outcome, result>>

\* The caller calls extract_shotgun_data_upwards on the same node again,
\* with the map the first call returned
ExtractShotgunDataUpwardsAgain ==
    /\ op = "extract"
    /\ pc = "done"
    /\ outcome = "ok"
    /\ "first" \notin DOMAIN args
    /\ pc' = "visit"
    /\ args' = [n |-> args.n, shotgun_data |-> result.d, first |-> result]
    /\ local' = [cur |-> args.n, tokens |-> result.d, visited |-> <<>>,
                 asked |-> FALSE]
    /\ queries' = <<>>
    /\ events' = <<>>
    /\ outcome' = "none"
    /\ result' = None
    /\ caller' = result.d
    /\ UNCHANGED <<catalog, node, op>>

\* return entries + secondary_entries with the last entry as the primary one
GetEntriesFromPathReturnAll ==
    /\ op = "path"
    /\ pc = "loop"
    /\ local.idx > Len(ChainTo(args.n))
    /\ Done("ok", [primary_entry |-> IF local.entries # <<>>
                                     THEN local.entries[Len(local.entries)]
                                     ELSE None,
                   entries |-> local.entries \o local.secondary_entries])
    /\ UNCHANGED <<catalog, node, op, args, local, queries, events, caller>>

\* The visit of a node that gives a level without an entry an empty one
ExtractVisitSeedingAbsent(user) ==
    /\ op = "extract"
    /\ pc = "visit"
    /\ \E n \in {local.cur} :
       \E seeded \in {IF SgDataKeyForFolderObj(n) \in DOMAIN local.tokens
                      THEN local.tokens
                      ELSE DictSet(local.tokens, SgDataKeyForFolderObj(n),
                                   Dict(EmptyDict))} :
       \E got \in {ExtractNode(n, seeded, user)} :
          /\ queries' = queries \o got.calls
          /\ node' = [node EXCEPT ![n].filters =
                                    FiltersAfterExtract(n, got.calls)]
          /\ caller' = Deepcopied(caller, got.tokens)
          /\ local' = [cur |-> IF got.exc = "none" /\ Parent(n) # 0
                               THEN Parent(n) ELSE n,
                       tokens |-> got.tokens,
                       visited |-> Append(local.visited, n),
                       asked |-> got.asked]
          /\ IF got.exc # "none" THEN Done(got.exc, None)
             ELSE IF Parent(n) # 0 THEN UNCHANGED <<pc, outcome, result>>
             ELSE Done("ok", Dict(got.tokens))
    /\ UNCHANGED <<catalog, op, args, events>>

\* The method runs on the node the walk has reached, and calls itself on
\* the parent or returns at the root
ExtractVisit(user) ==
    /\ op = "extract"
    /\ pc = "visit"
    /\ \E n \in {local.cur} : \E got \in {ExtractNode(n, local.tokens, user)} :
          /\ queries' = queries \o got.calls
          /\ node' = [node EXCEPT ![n].filters =
                                    FiltersAfterExtract(n, got.calls)]
          /\ caller' = Deepcopied(caller, got.tokens)
          /\ local' = [cur |-> IF got.exc = "none" /\ Parent(n) # 0
                               THEN Parent(n) ELSE n,
                       tokens |-> got.tokens,
                       visited |-> Append(local.visited, n),
                       asked |-> got.asked]
          /\ IF got.exc # "none" THEN Done(got.exc, None)
             ELSE IF Parent(n) # 0 THEN UNCHANGED <<pc, outcome, result>>
             ELSE Done("ok", Dict(got.tokens))
    /\ UNCHANGED <<catalog, op, args, events>>

\* The caller parses the path of a folder that create_folders has just
\* made: get_entries_from_path on the same node, up to its loop
GetEntriesFromPath(i) ==
    /\ op = "create"
    /\ pc = "done"
    /\ events[i].event = "make_entity_folder"
    /\ \E parsed \in {TemplateGetFields(args.n, events[i].path)} :
          /\ op' = "path"
          /\ args' = [n |-> args.n, input_path |-> events[i].path,
                      made |-> events[i].data, sg_data |-> args.sg_data,
                      created |-> outcome]
          /\ local' = [path_fields |-> parsed.fields, idx |-> 1,
                       sg_data |-> EmptyDict, entries |-> <<>>,
                       secondary_entries |-> <<>>]
          /\ queries' = <<>>
          /\ events' = <<>>
          /\ IF parsed.exc # "none" THEN Done(parsed.exc, None)
             ELSE /\ pc' = "loop"
                  /\ outcome' = "none"
                  /\ result' = None
    /\ UNCHANGED <<catalog, node, caller>>

\* One turn of the loop of get_entries_from_path over the folder objects,
\* root first; key is the key get_entity_from_fields stops at
GetEntriesFromPathFolderObj(key) ==
    /\ op = "path"
    /\ pc = "loop"
    /\ local.idx <= Len(ChainTo(args.n))
    /\ \E folder_obj \in {ChainTo(args.n)[local.idx]} :
       \E keys \in {EntityKeys(folder_obj, local.path_fields)} :
          /\ key \in (IF keys = {} THEN {TemplateKey("", "")} ELSE keys)
          /\ \E got \in {GetEntityFromFields(folder_obj, local.path_fields,
                                              local.sg_data, key)} :
             \E one \in {EntriesOfFolderObj(args.n, folder_obj,
                                            local.path_fields, got)} :
                /\ queries' = queries \o one.calls
                /\ node' = [node EXCEPT ![folder_obj].filters =
                                FiltersAfterResolve(folder_obj, got.calls)]
                /\ IF one.exc # "none"
                   THEN /\ Done(one.exc, None)
                        /\ local' = [local EXCEPT !.sg_data = one.sg_data]
                   ELSE /\ local' = [local EXCEPT
                                        !.idx = @ + 1,
                                        !.sg_data = one.sg_data,
                                        !.entries = @ \o one.entries,
                                        !.secondary_entries = @ \o one.secondary_entries]
                        /\ UNCHANGED <<pc, outcome, result>>
    /\ UNCHANGED <<catalog, op, args, events, caller>>

\* return primary_entry, entries + secondary_entries
GetEntriesFromPathReturn ==
    /\ op = "path"
    /\ pc = "loop"
    /\ local.idx > Len(ChainTo(args.n))
    /\ LET entries == local.entries
           primary_entry == IF entries # <<>> THEN entries[Len(entries)] ELSE None
           others == IF entries # <<>> THEN SubSeq(entries, 1, Len(entries) - 1)
                     ELSE <<>>
       IN Done("ok", [primary_entry |-> primary_entry,
                      entries |-> others \o local.secondary_entries])
    /\ UNCHANGED <<catalog, node, op, args, local, queries, events, caller>>

\* the folder names of the default parent path, by level
DefaultNames == <<"p", "a", "x", "u">>

\* The path_fields get_entity_from_fields is called with on node n: none,
\* those of the levels above only, and those of the whole template with a
\* name that is on the site or one that is not
PathFieldsFor(n) ==
    LET named(keys, v) == [name \in {key.name : key \in keys} |-> Str(v)]
    IN {EmptyDict,
        named(TemplatePathKeys(n - 1), DefaultNames[n]),
        named(TemplatePathKeys(n), DefaultNames[n]),
        named(TemplatePathKeys(n), "zz")}

\* A caller calls get_entity_from_fields on node n; sg_data is its map,
\* which the method changes in place
GetEntityFromFieldsCall(n, path_fields, sg_data, key) ==
    /\ op = "idle"
    /\ key \in (IF EntityKeys(n, path_fields) = {} THEN {TemplateKey("", "")}
                ELSE EntityKeys(n, path_fields))
    /\ op' = "fields"
    /\ args' = [n |-> n, path_fields |-> path_fields, sg_data |-> sg_data]
    /\ events' = <<>>
    /\ \E got \in {GetEntityFromFields(n, path_fields, sg_data, key)} :
          /\ queries' = got.calls
          /\ local' = [sg_data |-> got.sg_data]
          /\ node' = [node EXCEPT ![n].filters =
                                    FiltersAfterResolve(n, got.calls)]
          /\ caller' = got.sg_data
          /\ Done(IF got.exc = "none" THEN "ok" ELSE got.exc, got.entity)
    /\ UNCHANGED catalog

\* metadata.get(key, default)
MetadataGet(metadata, key, default) ==
    IF key \in DOMAIN metadata THEN metadata[key] ELSE default

\* The contents of the configuration files of the model: every subset of
\* the declarations of a Shot level, and the whole with one of the
\* required declarations left empty
Metadatas ==
    LET whole == [name |-> Str("code"),
                  entity_type |-> Str("Shot"),
                  filters |-> List(<<Cond("sg_sequence", "is",
                                          <<Str("$sequence")>>)>>),
                  create_with_parent |-> TRUE]
    IN {[key \in keys |-> whole[key]] : keys \in SUBSET DOMAIN whole}
          \cup {[whole EXCEPT ![key] = None] :
                    key \in {"name", "entity_type", "filters"}}

\* the folder of the levels above that a string of a filter names
FolderNamed(v) ==
    IF v = Str("$project") THEN Token(1)
    ELSE IF v = Str("$sequence") THEN Token(2)
    ELSE v

\* translate_filter_tokens: the conditions of the file with the names of
\* folders replaced by tokens, under the operator "and"
TranslateFilterTokens(filters) ==
    AndFilter([i \in DOMAIN filters.l |->
                  [filters.l[i] EXCEPT !.values =
                      [j \in DOMAIN filters.l[i].values |->
                          FolderNamed(filters.l[i].values[j])]]])

\* shotgun_entity.EntityExpression for a name of one field
EntityExpression(entity_type, field_name) == Expression(<<field_name.s>>, {})

\* The factory with the test of the filters left out: a file without
\* filters gives a node without conditions
CreateUnvalidated(metadata) ==
    /\ op = "idle"
    /\ op' = "construct"
    /\ args' = [metadata |-> metadata]
    /\ local' = NoLocal
    /\ queries' = <<>>
    /\ events' = <<>>
    /\ \E sg_name_expression \in {MetadataGet(metadata, "name", None)} :
       \E entity_type \in {MetadataGet(metadata, "entity_type", None)} :
       \E filters \in {MetadataGet(metadata, "filters", List(<<>>))} :
       \E create_with_parent \in
               {MetadataGet(metadata, "create_with_parent", FALSE)} :
          IF sg_name_expression = None THEN Done("TankError:name token", None)
          ELSE IF entity_type = None
          THEN Done("TankError:entity_type token", None)
          ELSE Done("ok", Entity(entity_type.s,
                                 EntityExpression(entity_type, sg_name_expression),
                                 IF filters = None THEN <<>>
                                 ELSE TranslateFilterTokens(filters).conditions,
                                 create_with_parent))
    /\ UNCHANGED <<catalog, node, caller>>

\* Entity.create: the factory, called with the contents of a file
Create(metadata) ==
    /\ op = "idle"
    /\ op' = "construct"
    /\ args' = [metadata |-> metadata]
    /\ local' = NoLocal
    /\ queries' = <<>>
    /\ events' = <<>>
    /\ \E sg_name_expression \in {MetadataGet(metadata, "name", None)} :
       \E entity_type \in {MetadataGet(metadata, "entity_type", None)} :
       \E filters \in {MetadataGet(metadata, "filters", None)} :
       \E create_with_parent \in
               {MetadataGet(metadata, "create_with_parent", FALSE)} :
          IF sg_name_expression = None THEN Done("TankError:name token", None)
          ELSE IF entity_type = None
          THEN Done("TankError:entity_type token", None)
          ELSE IF filters = None THEN Done("TankError:filters token", None)
          ELSE Done("ok", Entity(entity_type.s,
                                 EntityExpression(entity_type, sg_name_expression),
                                 TranslateFilterTokens(filters).conditions,
                                 create_with_parent))
    /\ UNCHANGED <<catalog, node, caller>>

\* The caller takes the result; the next call starts afresh
Finish ==
    /\ pc = "done"
    /\ op' = "idle"
    /\ pc' = "idle"
    /\ args' = EmptyDict
    /\ local' = NoLocal
    /\ queries' = <<>>
    /\ events' = <<>>
    /\ outcome' = "none"
    /\ result' = None
    /\ caller' = None
    /\ UNCHANGED <<catalog, node>>

Next ==
    \/ /\ op = "idle"
       /\ \E n \in Nodes : \E sg_data \in CreateFoldersData(n) :
            \E is_primary \in BOOLEAN : \E user \in CurrentUsers :
               CreateFolders(n, sg_data, is_primary, user)
    \/ CreateFoldersEntity
    \/ CreateFoldersReturn
    \/ /\ op = "idle"
       /\ \E n \in Nodes : \E shotgun_data \in ExtractData(n) :
            ExtractShotgunDataUpwards(n, shotgun_data)
    \/ \E user \in CurrentUsers : ExtractVisit(user)
    \/ ExtractShotgunDataUpwardsAgain
    \/ \E i \in DOMAIN events : GetEntriesFromPath(i)
    \/ /\ op = "path"
       /\ \E key \in TemplatePathKeys(4) \cup {TemplateKey("", "")} :
            GetEntriesFromPathFolderObj(key)
    \/ GetEntriesFromPathReturn
    \/ /\ op = "idle"
       /\ \E metadata \in Metadatas : Create(metadata)
    \/ /\ op = "idle"
       /\ \E n \in Nodes : \E path_fields \in PathFieldsFor(n) :
            \E sg_data \in AncestorData(n) \cup {EmptyDict} :
               \E key \in TemplatePathKeys(n) \cup {TemplateKey("", "")} :
                  GetEntityFromFieldsCall(n, path_fields, sg_data, key)
    \/ Finish

Spec == Init /\ [][Next]_vars


-----------------------------------------------------------------------------
\* Properties of folder creation

\* the levels the tokens of the filter of node n refer to
TokenKeys(n) ==
    {GetSgDataKey(node[n].filters.conditions[i].values[j]) :
        <<i, j>> \in {p \in (DOMAIN node[n].filters.conditions) \X (1..2) :
                        /\ p[2] \in DOMAIN node[n].filters.conditions[p[1]].values
                        /\ IsToken(node[n].filters.conditions[p[1]].values[p[2]])}}

\* create_folders is running on a node that is processed, and sg_data
\* holds for its level a record with every field the node needs
HoldsEveryField ==
    /\ op = "create"
    /\ local.processed
    /\ node[args.n].entity_type \in DOMAIN args.sg_data
    /\ IsDict(args.sg_data[node[args.n].entity_type])
    /\ RequiredFields(args.n) \subseteq DOMAIN args.sg_data[node[args.n].entity_type].d

\* C1 as stated: whenever sg_data holds for the level of the node a record
\* with every field the node needs, create_folders issues no query and has
\* exactly one candidate, that record.
C1_ReuseForAnyData ==
    HoldsEveryField =>
        /\ queries = <<>>
        /\ local.entities = <<args.sg_data[node[args.n].entity_type]>>

\* C1 amended: when sg_data holds such a record and also an entry for
\* every level a token of the filter refers to, no query is issued and the
\* only candidate is that record; when the entry of such a level is missing
\* the call fails on the token, with no query and no candidate.
C1_ReuseWhenTokensResolve ==
    HoldsEveryField =>
        /\ queries = <<>>
        /\ IF TokenKeys(args.n) \subseteq DOMAIN args.sg_data
           THEN local.entities = <<args.sg_data[node[args.n].entity_type]>>
           ELSE /\ local.entities = <<>>
                /\ pc = "done"
                /\ outcome = "TankError:token"

\* A shot that the filter of its level excludes is in sg_data with all its
\* fields, and has been processed as the only candidate without a query.
C1_Witness ==
    /\ HoldsEveryField
    /\ args.n = 3
    /\ TokenKeys(3) # {}
    /\ TokenKeys(3) \subseteq DOMAIN args.sg_data
    /\ Find(catalog, "Shot",
            ResolveShotgunFilters(node[3].filters, args.sg_data).filters, {}) = <<>>
    /\ local.idx = 2
    /\ local.items_created # <<>>
    /\ queries = <<>>

\* C10: a node whose create_with_parent flag is false and that is not the
\* primary node of the call is not processed: no query, no io_receiver call,
\* nothing returned; the primary node of the call is processed whatever its
\* flag.
C10_CreateWithParent ==
    op = "create" =>
        /\ (~args.is_primary /\ ~node[args.n].create_with_parent) =>
              /\ ~local.processed
              /\ outcome = "skipped"
              /\ queries = <<>>
              /\ events = <<>>
              /\ result = None
        /\ args.is_primary => local.processed /\ outcome # "skipped"

\* The primary node of a call has its flag off and its folder has been made.
C10_Witness ==
    /\ op = "create"
    /\ args.is_primary
    /\ ~node[args.n].create_with_parent
    /\ local.processed
    /\ \E i \in DOMAIN events : events[i].event = "make_entity_folder"


-----------------------------------------------------------------------------
\* Properties of upward extraction

\* the record of the site with the type and id of an entry
SiteRecordOf(entry) ==
    CHOOSE r \in catalog : r.type = entry.d.type /\ r.id = entry.d.id

OnSite(entry) == \E r \in catalog : r.type = entry.d.type /\ r.id = entry.d.id

\* C2: when the lookup of a level by its id and the plain conditions of the
\* node returns nothing, the walk ends without a map: with the not-found
\* error exactly when the site holds no record of that type and id, with
\* the link type mismatch exactly when it holds one.
C2_Disambiguation ==
    (/\ op = "extract"
     /\ \E k \in DOMAIN queries :
            queries[k].fields # {} /\ queries[k].returned = None) =>
        LET k == CHOOSE j \in DOMAIN queries :
                    queries[j].fields # {} /\ queries[j].returned = None
            conds == queries[k].conditions
            my_id == conds[Len(conds)].values[1]
            exists == \E r \in catalog :
                         r.type = Str(queries[k].entity_type) /\ r.id = my_id
        IN /\ pc = "done"
           /\ result = None
           /\ outcome = IF exists THEN "EntityLinkTypeMismatch"
                        ELSE "TankError:notfound"

\* A shot that is on the site but that a plain condition of the Shot level
\* excludes has been looked up: the walk has ended with the mismatch.
C2_Witness ==
    /\ op = "extract"
    /\ pc = "done"
    /\ outcome = "EntityLinkTypeMismatch"
    /\ Len(queries) = 2
    /\ queries[1].returned = None
    /\ queries[2].returned # None
    /\ PlainConditions(local.cur) # <<>>
    /\ \A i \in DOMAIN queries[1].conditions :
           \A j \in DOMAIN queries[1].conditions[i].values :
               ~IsToken(queries[1].conditions[i].values[j])

\* the condition of node n that links it to the level above by one token
ParentConditions(n) ==
    {c \in {node[n].filters.conditions[i] : i \in DOMAIN node[n].filters.conditions} :
        c.values = <<Token(n - 1)>>}

\* the walk started on the Shot node with a seed for the shot has returned
ShotWalkReturned ==
    /\ op = "extract"
    /\ pc = "done"
    /\ outcome = "ok"
    /\ args.n = 3
    /\ "Shot" \in DOMAIN args.shotgun_data

\* C3: in the chain Project > Sequence > Shot, where a condition of the
\* Shot level on a field x has a token of the Sequence level as its value,
\* the map returned for a seed at Shot holds under Sequence the value of
\* field x of the shot: every key of that link, with its value.
C3_TokenPropagation ==
    (ShotWalkReturned /\ ParentConditions(3) # {}) =>
        LET x == (CHOOSE c \in ParentConditions(3) : TRUE).path
            value == SiteRecordOf(args.shotgun_data["Shot"])[x]
        IN (IsDict(value) /\ value.d.type = Str("Sequence")) =>
              /\ "Sequence" \in DOMAIN result.d
              /\ IsDict(result.d["Sequence"])
              /\ \A f \in DOMAIN value.d :
                    /\ f \in DOMAIN result.d["Sequence"].d
                    /\ result.d["Sequence"].d[f] = value.d[f]

\* The walk has returned for a seed at Shot that named another sequence
\* than the one the shot is linked to.
C3_Witness ==
    /\ ShotWalkReturned
    /\ ParentConditions(3) # {}
    /\ "Sequence" \in DOMAIN args.shotgun_data
    /\ args.shotgun_data["Sequence"].d.id #
           SiteRecordOf(args.shotgun_data["Shot"]).sg_sequence.d.id
    /\ Len(queries) = 2

\* the fields of the conditions of node n whose value is a token; the path
\* of a condition with the $FROM$ marker is not a field of the level
TokenPaths(n) ==
    {c.path : c \in {d \in {node[n].filters.conditions[i] :
                               i \in DOMAIN node[n].filters.conditions} :
                        /\ ~StartsWithFrom(d.path)
                        /\ \E j \in DOMAIN d.values : IsToken(d.values[j])}}

\* C4: in the chain Project > Sequence > Shot, where the Sequence and the
\* Shot level are each linked to the level above by a token, the map
\* returned for a seed that holds only the identity of the shot has an
\* entry for each of the three levels, and each entry holds every field its
\* level needs (name fields, link fields, name field of the type, fields of
\* the token conditions), with the value the site has for it.
C4_FullPopulation ==
    (/\ ShotWalkReturned
     /\ ParentConditions(2) # {}
     /\ ParentConditions(3) # {}
     /\ DOMAIN args.shotgun_data = {"Shot"}
     /\ DOMAIN args.shotgun_data["Shot"].d = {"type", "id"}) =>
        \A i \in 1..3 :
            /\ node[i].entity_type \in DOMAIN result.d
            /\ IsDict(result.d[node[i].entity_type])
            /\ LET entry == result.d[node[i].entity_type]
               IN /\ {"type", "id"} \subseteq DOMAIN entry.d
                  /\ entry.d.type = Str(node[i].entity_type)
                  /\ OnSite(entry)
                  /\ \A f \in RequiredFields(i) \cup TokenPaths(i) :
                        /\ f \in DOMAIN entry.d
                        /\ entry.d[f] = SiteRecordOf(entry)[f]

\* The walk has returned for a seed with the identity of the shot only,
\* after a lookup of the shot and one of the sequence; the link of the
\* sequence to the project holds all the Project level needs.
C4_Witness ==
    /\ ShotWalkReturned
    /\ ParentConditions(2) # {}
    /\ ParentConditions(3) # {}
    /\ DOMAIN args.shotgun_data = {"Shot"}
    /\ DOMAIN args.shotgun_data["Shot"].d = {"type", "id"}
    /\ Len(queries) = 2
    /\ local.visited = <<3, 2, 1>>


-----------------------------------------------------------------------------
\* Properties of the result of folder creation and of the round trip

\* every candidate of the call has a value for each field of the name
CandidatesNamed ==
    \A i \in DOMAIN local.entities :
        GenerateName(node[args.n].expression, local.entities[i].d).exc = "none"

\* The pair create_folders is to return for a candidate: the folder and the
\* incoming sg_data with, under the key of the level, the fields of the
\* candidate and computed_name
ExpectedItem(entity) ==
    LET key == node[args.n].entity_type
        folder_name == GenerateName(node[args.n].expression, entity.d).name
        before == IF key \in DOMAIN args.sg_data /\ IsDict(args.sg_data[key])
                  THEN args.sg_data[key].d ELSE EmptyDict
        merged == [f \in (DOMAIN before) \cup (DOMAIN entity.d) \cup {"computed_name"} |->
                      IF f = "computed_name" THEN Str(folder_name)
                      ELSE IF f \in DOMAIN entity.d THEN entity.d[f]
                      ELSE before[f]]
    IN <<Append(args.parent_path, folder_name),
         [l \in (DOMAIN args.sg_data) \cup {key} |->
             IF l = key THEN Dict(merged) ELSE args.sg_data[l]]>>

C6_ResultShape ==
    (/\ op = "create"
     /\ pc = "done"
     /\ local.processed
     /\ local.entities # <<>>
     /\ CandidatesNamed) =>
        /\ outcome = "ok"
        /\ result = List([i \in DOMAIN local.entities |->
                             ExpectedItem(local.entities[i])])

\* the folder names of the records of each level down to n differ
NamesUnique(n) ==
    \A i \in 1..n : \A r, q \in SiteRecords(node[i].entity_type) :
        r # q => GenerateName(node[i].expression, r)
                    # GenerateName(node[i].expression, q)

\* The folder that was made lies where the hierarchy puts it: sg_data of
\* the call held a record of the site for every level above, and every
\* record down to the one the folder was made for passes the filter of its
\* level.
WellPlaced ==
    /\ \A i \in 1..(args.n - 1) :
           /\ node[i].entity_type \in DOMAIN args.sg_data
           /\ OnSite(args.sg_data[node[i].entity_type])
    /\ OnSite(args.made)
    /\ \A i \in 1..args.n :
           LET resolved == ResolveShotgunFilters(node[i].filters, args.sg_data)
               rec == IF i = args.n THEN SiteRecordOf(args.made)
                      ELSE SiteRecordOf(args.sg_data[node[i].entity_type])
           IN /\ resolved.exc = "none"
              /\ FilterMatch(rec, resolved.filters)

\* C7 as stated: for a record that create_folders has made a folder for,
\* where folder names are unique on each level, get_entries_from_path on
\* the path of the folder, at the same node, returns a primary entry with
\* the type and id of that record.
C7_RoundTrip ==
    (/\ op = "path"
     /\ pc = "done"
     /\ args.created = "ok"
     /\ NamesUnique(args.n)
     /\ WellPlaced) =>
        /\ outcome = "ok"
        /\ result.primary_entry # None
        /\ result.primary_entry.entity.d.type = args.made.d.type
        /\ result.primary_entry.entity.d.id = args.made.d.id

\* C8 as stated: no call to the site, of any of the three methods, has a
\* token among the values of a condition of its filter.
C8_NoTokenReachesSite ==
    \A k \in DOMAIN queries :
        \A i \in DOMAIN queries[k].conditions :
            \A j \in DOMAIN queries[k].conditions[i].values :
                ~IsToken(queries[k].conditions[i].values[j])

\* the type and id of the entries of a map that are records
Identities(map) ==
    [l \in {q \in DOMAIN map : IsDict(map[q]) /\ {"type", "id"} \subseteq DOMAIN map[q].d} |->
        <<map[l].d.type, map[l].d.id>>]

\* the entries of a map keep the identities they have in an earlier map
KeepsIdentities(before, after) ==
    \A l \in DOMAIN Identities(before) :
        /\ l \in DOMAIN Identities(after)
        /\ Identities(after)[l] = Identities(before)[l]

\* C9 as stated: in every step of extract_shotgun_data_upwards and of
\* create_folders, an entry that is in the working map keeps its type and
\* id; a step only adds fields.
C9_IdentityKept ==
    [][/\ (op = "extract" /\ op' = "extract") =>
              KeepsIdentities(local.tokens, local'.tokens)
       /\ (op = "create" /\ op' = "create" /\ pc = "loop") =>
              \A i \in DOMAIN local'.items_created :
                  KeepsIdentities(args.sg_data, local'.items_created[i][2])]_vars


-----------------------------------------------------------------------------
\* Properties of the promotion of links and of the levels without an entry

\* the node the walk has visited last
LastVisited == local.visited[Len(local.visited)]

\* The walk has visited a node whose level has an entry that holds every
\* field folder creation needs
VisitedWithRecord ==
    /\ op = "extract"
    /\ local.visited # <<>>
    /\ SgDataKeyForFolderObj(LastVisited) \in DOMAIN local.tokens
    /\ IsDict(local.tokens[SgDataKeyForFolderObj(LastVisited)])
    /\ RequiredFields(LastVisited)
           \subseteq DOMAIN local.tokens[SgDataKeyForFolderObj(LastVisited)].d

\* the entry of the level of the node visited last
VisitedRecord == local.tokens[SgDataKeyForFolderObj(LastVisited)].d

\* a field that is missing from a record, is None or is an empty list
IsEmptyValue(rec, field) ==
    \/ field \notin DOMAIN rec
    \/ rec[field] = None
    \/ rec[field] = List(<<>>)

\* C11: when the record of the level of the node just visited has no value
\* (missing, None, empty list) for a field of link_map, the walk has ended
\* with the link type mismatch and without a map.
C11_EmptyDependencyRaises ==
    VisitedWithRecord =>
        \A i \in DOMAIN LinkMap(LastVisited) :
            IsEmptyValue(VisitedRecord, LinkMap(LastVisited)[i].field) =>
                /\ pc = "done"
                /\ outcome = "EntityLinkTypeMismatch"
                /\ result = None

\* the fields of link_map of the node visited last whose value is a single
\* link of another type than the token expects
MismatchedLinks ==
    {i \in DOMAIN LinkMap(LastVisited) :
        LET e == LinkMap(LastVisited)[i]
        IN /\ e.field \in DOMAIN VisitedRecord
           /\ IsDict(VisitedRecord[e.field])
           /\ VisitedRecord[e.field].d.type # Str(TokenEntityType(e.link_obj))}

\* C12: when a field of link_map of the node just visited holds a single
\* link of another type than the token expects, the walk has ended with the
\* link type mismatch and without a map, and the entry of the level the
\* token refers to is as the caller gave it; a map that is returned holds
\* such a link under no level.
C12_PolymorphicLinkGuard ==
    /\ (VisitedWithRecord /\ MismatchedLinks # {}) =>
          /\ pc = "done"
          /\ outcome = "EntityLinkTypeMismatch"
          /\ result = None
          /\ \A i \in MismatchedLinks :
                LET data_key == GetSgDataKey(LinkMap(LastVisited)[i].link_obj)
                IN IF data_key \in DOMAIN args.shotgun_data
                   THEN /\ data_key \in DOMAIN local.tokens
                        /\ local.tokens[data_key] = args.shotgun_data[data_key]
                   ELSE data_key \notin DOMAIN local.tokens
    /\ (op = "extract" /\ pc = "done" /\ outcome = "ok") =>
          \A n \in Nodes : \A i \in DOMAIN LinkMap(n) :
              LET e == LinkMap(n)[i]
                  data_key == GetSgDataKey(e.link_obj)
              IN (/\ n \in {local.visited[j] : j \in DOMAIN local.visited}
                  /\ data_key \in DOMAIN result.d
                  /\ IsDict(result.d[data_key])
                  /\ "type" \in DOMAIN result.d[data_key].d) =>
                     result.d[data_key].d.type = Str(TokenEntityType(e.link_obj))

\* The shot links a project in the field of the token of the Sequence
\* level: the walk has looked the shot up and ended on the mismatch.
C12_Witness ==
    /\ VisitedWithRecord
    /\ MismatchedLinks # {}
    /\ LastVisited = 3
    /\ Len(queries) = 1
    /\ queries[1].returned # None
    /\ outcome = "EntityLinkTypeMismatch"

\* C13: the visit of a node that is no HumanUser node and whose level has
\* no entry in the map issues no query and hands the map on as it is: to
\* the parent, or at the root as the result.
C13_FreeFloatingSkip ==
    [][(/\ op = "extract"
        /\ pc = "visit"
        /\ node[local.cur].entity_type # "HumanUser"
        /\ SgDataKeyForFolderObj(local.cur) \notin DOMAIN local.tokens) =>
           /\ queries' = queries
           /\ local'.tokens = local.tokens
           /\ local'.visited = Append(local.visited, local.cur)
           /\ IF Parent(local.cur) # 0
              THEN /\ pc' = "visit"
                   /\ local'.cur = Parent(local.cur)
                   /\ outcome' = "none"
              ELSE /\ pc' = "done"
                   /\ outcome' = "ok"
                   /\ result' = Dict(local.tokens)]_vars

\* The walk started at the Shot node has returned a map without an entry
\* for the Sequence and the Project level, after one lookup, of the shot.
C13_Witness ==
    /\ op = "extract"
    /\ pc = "done"
    /\ outcome = "ok"
    /\ local.visited = <<3, 2, 1>>
    /\ DOMAIN result.d = {"Shot"}
    /\ Len(queries) = 1


-----------------------------------------------------------------------------
\* Properties of the query of folder creation

\* the fields of the name pattern of node n, its link fields and the name
\* field of its entity type
FullFieldSet(n) ==
    {node[n].expression.fields[i] : i \in DOMAIN node[n].expression.fields}
        \cup node[n].expression.links
        \cup {IF node[n].entity_type \in {"Project", "HumanUser"}
              THEN "name" ELSE "code"}

\* create_folders is running on a node that is processed, and sg_data
\* holds for its level a record that lacks a field the node needs
HoldsPartialRecord ==
    /\ op = "create"
    /\ local.processed
    /\ node[args.n].entity_type \in DOMAIN args.sg_data
    /\ IsDict(args.sg_data[node[args.n].entity_type])
    /\ "id" \in DOMAIN args.sg_data[node[args.n].entity_type].d
    /\ ~(FullFieldSet(args.n) \subseteq DOMAIN args.sg_data[node[args.n].entity_type].d)

\* create_folders is running on a node that is processed, and sg_data
\* holds nothing for its level
HoldsNoRecord ==
    /\ op = "create"
    /\ local.processed
    /\ node[args.n].entity_type \notin DOMAIN args.sg_data

\* One find has been issued for every field of the node, with the
\* conditions of the node, tokens replaced, followed by the conditions more
OneFindWith(more) ==
    /\ Len(queries) = 1
    /\ queries[1].method = "find"
    /\ queries[1].entity_type = node[args.n].entity_type
    /\ queries[1].fields = FullFieldSet(args.n)
    /\ queries[1].conditions =
           ResolveShotgunFilters(node[args.n].filters, args.sg_data).filters.conditions
               \o more
    /\ \A i \in DOMAIN queries[1].conditions :
           \A j \in DOMAIN queries[1].conditions[i].values :
               ~IsToken(queries[1].conditions[i].values[j])

\* the condition "id is the id of the record sg_data holds for the level"
SeedIdCondition ==
    Cond("id", "is", <<args.sg_data[node[args.n].entity_type].d.id>>)

\* every candidate has the id of the record sg_data holds for the level
CandidatesHaveSeedId ==
    \A i \in DOMAIN local.entities :
        local.entities[i].d.id = args.sg_data[node[args.n].entity_type].d.id

\* C14 as stated: with a partial record for the level exactly one find is
\* issued, for every field, narrowed to the id of the record, and every
\* candidate has that id; with no record for the level exactly one find is
\* issued with the resolved filter of the node and no condition on the id.
C14_NarrowingForAnyData ==
    /\ HoldsPartialRecord =>
          OneFindWith(<<SeedIdCondition>>) /\ CandidatesHaveSeedId
    /\ HoldsNoRecord => OneFindWith(<<>>)

\* C14 amended: the same when sg_data has an entry for every level a token
\* of the filter refers to and, in the case of no record, the node is no
\* HumanUser node; when the entry of such a level is missing the call
\* fails on the token without a find.
C14_NarrowingWhenTokensResolve ==
    IF op = "create" /\ ~(TokenKeys(args.n) \subseteq DOMAIN args.sg_data)
    THEN (HoldsPartialRecord \/ HoldsNoRecord) =>
            /\ queries = <<>>
            /\ local.entities = <<>>
            /\ pc = "done"
            /\ outcome = "TankError:token"
    ELSE /\ HoldsPartialRecord =>
               OneFindWith(<<SeedIdCondition>>) /\ CandidatesHaveSeedId
         /\ (HoldsNoRecord /\ node[args.n].entity_type # "HumanUser") =>
               OneFindWith(<<>>)

\* The Shot node has made the folder of the one shot that the find narrowed
\* to the id of the seed returned, the token of its filter being resolved.
C14_Witness ==
    /\ HoldsPartialRecord
    /\ args.n = 3
    /\ TokenKeys(3) # {}
    /\ TokenKeys(3) \subseteq DOMAIN args.sg_data
    /\ Len(queries) = 1
    /\ Len(local.entities) = 1
    /\ pc = "done"
    /\ outcome = "ok"


-----------------------------------------------------------------------------
\* Properties of the entries of a path

\* get_entries_from_path has returned
PathReturned ==
    /\ op = "path"
    /\ pc = "done"
    /\ outcome = "ok"

\* the record the call has resolved for node i of the chain
ResolvedRecord(i) == local.sg_data[node[i].entity_type]

\* the path of node i of the chain
LocalPath(i) == TemplateApplyFields(i, local.path_fields)

\* the entries of the result that are not primary, for link field lf of
\* node i: the value of lf in the record of node i, with the path of node i
SecondaryEntriesOf(i, lf) ==
    {k \in DOMAIN result.entries :
        /\ result.entries[k].primary = FALSE
        /\ result.entries[k].path = LocalPath(i)
        /\ lf \in DOMAIN ResolvedRecord(i).d
        /\ result.entries[k].entity = ResolvedRecord(i).d[lf]}

\* C15: for a path whose chain has several nodes, the result holds for
\* every node of the chain and every link field of the name pattern of
\* that node one entry that is not primary, with the value of the field in
\* the record of that node and the path of that node.
C15_SecondaryEntries ==
    (PathReturned /\ args.n > 1) =>
        \A i \in 1..args.n :
            \A lf \in GetShotgunLinkFields(node[i].expression) :
                Cardinality(SecondaryEntriesOf(i, lf)) = 1

\* the map get_entity_from_fields was given on node i: the records the
\* queries before the i-th returned
RecordsBefore(i) ==
    [t \in {node[j].entity_type : j \in 1..(i - 1)} |->
        queries[CHOOSE j \in 1..(i - 1) : node[j].entity_type = t].returned]

\* the primary entry of the record a query returned
PrimaryOf(i) ==
    Entry(Dict([type |-> queries[i].returned.d.type,
                id |-> queries[i].returned.d.id,
                name |-> queries[i].returned.d[
                             GetSgEntityNameField(node[i].entity_type)]]),
          LocalPath(i), TRUE)

\* C16: when get_entries_from_path returns, it has looked the nodes of the
\* chain up from the root to the leaf, each with the tokens of its filter
\* replaced by the records found before; the primary entry is that of the
\* leaf; the list holds the primary entries of the nodes above the leaf,
\* root first, and after them entries that are not primary; the primary
\* entry is not in the list.
C16_PrimarySplitAndOrder ==
    PathReturned =>
        /\ Len(queries) = args.n
        /\ \A i \in 1..args.n :
              /\ queries[i].entity_type = node[i].entity_type
              /\ queries[i].returned # None
              /\ SubSeq(queries[i].conditions, 1, Len(queries[i].conditions) - 1) =
                     ResolveShotgunFilters(node[i].filters,
                                           RecordsBefore(i)).filters.conditions
        /\ result.primary_entry = PrimaryOf(args.n)
        /\ Len(result.entries) >= args.n - 1
        /\ \A i \in 1..(args.n - 1) : result.entries[i] = PrimaryOf(i)
        /\ \A k \in DOMAIN result.entries :
              /\ k > args.n - 1 => result.entries[k].primary = FALSE
              /\ result.entries[k] # result.primary_entry
        /\ result.entries =
              [i \in 1..(args.n - 1) |-> PrimaryOf(i)] \o local.secondary_entries

\* The path of a shot has been resolved: the shot is the primary entry,
\* the project and the sequence are in the list, and the shot was looked up
\* with the record of the sequence in the place of the token.
C16_Witness ==
    /\ PathReturned
    /\ args.n = 3
    /\ TokenKeys(3) # {}
    /\ Len(result.entries) = 2
    /\ result.primary_entry.entity.d.type = Str("Shot")

\* The path of a project named after its lead has been resolved: the list
\* holds the entry of the lead, which is not primary.
C16_WitnessSecondary ==
    /\ PathReturned
    /\ args.n = 1
    /\ Len(result.entries) = 1
    /\ result.entries[1].primary = FALSE


-----------------------------------------------------------------------------
\* Properties of the HumanUser level

\* create_folders is running on a HumanUser node that is processed
CreatingUserFolders ==
    /\ op = "create"
    /\ local.processed
    /\ node[args.n].entity_type = "HumanUser"

\* the call has failed on the current user before any query or io_receiver
\* call
FailedOnCurrentUser ==
    /\ pc = "done"
    /\ outcome = "TankError:user"
    /\ result = None
    /\ queries = <<>>
    /\ events = <<>>

\* create_folders has taken the user u as the seed of the level: as the
\* only candidate when u holds every field, else in a find by the id of u
UserIsSeedOfFolders(u) ==
    IF RequiredFields(args.n) \subseteq DOMAIN u.d
    THEN queries = <<>> /\ local.entities = <<u>>
    ELSE /\ Len(queries) = 1
         /\ queries[1].conditions[Len(queries[1].conditions)] =
                Cond("id", "is", <<u.d.id>>)

\* the walk has just visited the HumanUser node it started on
VisitedUserNode ==
    /\ op = "extract"
    /\ local.visited # <<>>
    /\ node[LastVisited].entity_type = "HumanUser"

\* what C17 says of create_folders when the level has no record
UserAskedByCreateFolders ==
    /\ local.asked
    /\ \/ FailedOnCurrentUser
       \/ /\ outcome # "TankError:user"
          /\ \E u \in CurrentUsers \ {None} : UserIsSeedOfFolders(u)

\* what C17 says of the walk: without a record for the level the current
\* user is asked for, and the visit fails without a query or goes on with
\* the user as the entry of the level; with a record nobody is asked
UserAskedByWalk ==
    /\ VisitedUserNode =>
          IF "HumanUser" \notin DOMAIN args.shotgun_data
          THEN /\ local.asked
               /\ \/ FailedOnCurrentUser
                  \/ /\ outcome # "TankError:user"
                     /\ outcome \in {"none", "ok"} =>
                            \E u \in CurrentUsers \ {None} :
                                /\ "HumanUser" \in DOMAIN local.tokens
                                /\ IsDict(local.tokens["HumanUser"])
                                /\ \A f \in DOMAIN u.d :
                                       /\ f \in DOMAIN local.tokens["HumanUser"].d
                                       /\ local.tokens["HumanUser"].d[f] = u.d[f]
          ELSE ~local.asked /\ outcome # "TankError:user"
    /\ (op = "extract" /\ local.visited # <<>>
            /\ node[LastVisited].entity_type # "HumanUser") =>
          ~local.asked /\ outcome # "TankError:user"

\* C17 as stated: create_folders and the walk, on a HumanUser node whose
\* level has no record in the map, ask for the current user; without one
\* the call fails on the current user before any query and any io_receiver
\* call, with one it is the seed of the level. With a record in the map,
\* and on the other nodes, nobody is asked.
C17_CurrentUserForAnyData ==
    /\ CreatingUserFolders =>
          IF "HumanUser" \notin DOMAIN args.sg_data
          THEN UserAskedByCreateFolders
          ELSE ~local.asked /\ outcome # "TankError:user"
    /\ (op = "create" /\ local.processed
            /\ node[args.n].entity_type # "HumanUser") =>
          ~local.asked /\ outcome # "TankError:user"
    /\ UserAskedByWalk

\* C17 amended: the same, but create_folders asks only when sg_data has an
\* entry for every level a token of the filter of the node refers to;
\* otherwise it fails on the token and nobody is asked.
C17_CurrentUserWhenTokensResolve ==
    /\ CreatingUserFolders =>
          IF ~(TokenKeys(args.n) \subseteq DOMAIN args.sg_data)
          THEN /\ ~local.asked
               /\ pc = "done"
               /\ outcome = "TankError:token"
               /\ queries = <<>>
               /\ events = <<>>
          ELSE IF "HumanUser" \notin DOMAIN args.sg_data
          THEN UserAskedByCreateFolders
          ELSE ~local.asked /\ outcome # "TankError:user"
    /\ (op = "create" /\ local.processed
            /\ node[args.n].entity_type # "HumanUser") =>
          ~local.asked /\ outcome # "TankError:user"
    /\ UserAskedByWalk

\* create_folders on the HumanUser node, with the levels above in sg_data
\* and no record for the user, has failed for want of a current user.
C17_Witness ==
    /\ CreatingUserFolders
    /\ "HumanUser" \notin DOMAIN args.sg_data
    /\ "Shot" \in DOMAIN args.sg_data
    /\ local.asked
    /\ FailedOnCurrentUser

\* The walk started on the HumanUser node with a seed for the shot has
\* taken the current user as the entry of the level and gone on.
C17_WitnessWalk ==
    /\ VisitedUserNode
    /\ "HumanUser" \notin DOMAIN args.shotgun_data
    /\ local.asked
    /\ outcome = "none"
    /\ "HumanUser" \in DOMAIN local.tokens


-----------------------------------------------------------------------------
\* Properties of the factory

\* the declarations of a file that are missing or empty
MissingDeclarations(metadata) ==
    {key \in {"name", "entity_type", "filters"} :
        key \notin DOMAIN metadata \/ metadata[key] = None}

\* C18: the factory raises a configuration error and returns no node
\* when the name, the entity type or the filters are missing from the
\* metadata; with all three it returns a node of that entity type and name,
\* with the filters of the file, whose create_with_parent flag is the one
\* declared, or false when none is.
C18_ConfigurationError ==
    op = "construct" =>
        /\ pc = "done"
        /\ queries = <<>>
        /\ events = <<>>
        /\ IF MissingDeclarations(args.metadata) # {}
           THEN /\ outcome \in {"TankError:name token",
                                 "TankError:entity_type token",
                                 "TankError:filters token"}
                /\ result = None
           ELSE /\ outcome = "ok"
                /\ result.entity_type = args.metadata.entity_type.s
                /\ result.expression.fields = <<args.metadata.name.s>>
                /\ Len(result.filters.conditions) = Len(args.metadata.filters.l)
                /\ result.create_with_parent =
                       IF "create_with_parent" \in DOMAIN args.metadata
                       THEN args.metadata.create_with_parent
                       ELSE FALSE

\* The factory has refused a file that declares a name and an entity type
\* but no filters.
C18_Witness ==
    /\ op = "construct"
    /\ MissingDeclarations(args.metadata) = {"filters"}
    /\ outcome = "TankError:filters token"
    /\ result = None

\* The factory has made a node from a file that does not declare
\* create_with_parent.
C18_WitnessDefault ==
    /\ op = "construct"
    /\ outcome = "ok"
    /\ "create_with_parent" \notin DOMAIN args.metadata
    /\ result.create_with_parent = FALSE


-----------------------------------------------------------------------------
\* Properties of the failures of path resolution

\* C19: get_entity_from_fields, when no field of path_fields is bound to
\* the entity type of the node, raises without a query; when the lookup
\* returns nothing, it raises; either way sg_data is left as it was. When
\* it raises in get_entries_from_path, that call returns nothing and its
\* sg_data holds the records of the nodes before only.
C19_PathFailuresAreFatal ==
    /\ op = "fields" =>
          IF EntityKeys(args.n, args.path_fields) = {}
          THEN /\ outcome = "TankError:path"
               /\ queries = <<>>
               /\ result = None
               /\ local.sg_data = args.sg_data
          ELSE IF queries = <<>>
          THEN /\ outcome = "TankError:token"
               /\ result = None
               /\ local.sg_data = args.sg_data
          ELSE IF queries[1].returned = None
          THEN /\ outcome = "TankError:lookup"
               /\ Len(queries) = 1
               /\ result = None
               /\ local.sg_data = args.sg_data
          ELSE /\ outcome = "ok"
               /\ Len(queries) = 1
               /\ result = queries[1].returned
               /\ local.sg_data =
                      DictSet(args.sg_data, node[args.n].entity_type, result)
    /\ (op = "path" /\ pc = "done"
            /\ (\/ outcome \in {"TankError:path", "TankError:lookup"}
                \/ queries # <<>> /\ queries[Len(queries)].returned = None)) =>
          /\ outcome \in {"TankError:path", "TankError:lookup"}
          /\ result = None
          /\ DOMAIN local.sg_data =
                 {node[j].entity_type : j \in 1..(local.idx - 1)}
          /\ \A j \in 1..(local.idx - 1) :
                 local.sg_data[node[j].entity_type] = queries[j].returned

\* get_entity_from_fields has looked up a name that is not on the site,
\* with the levels above in sg_data, and raised.
C19_Witness ==
    /\ op = "fields"
    /\ args.n = 3
    /\ DOMAIN args.sg_data = {"Project", "Sequence"}
    /\ outcome = "TankError:lookup"
    /\ Len(queries) = 1

\* get_entity_from_fields has raised for path_fields that hold the fields
\* of the levels above only.
C19_WitnessNoField ==
    /\ op = "fields"
    /\ args.n = 3
    /\ args.path_fields # EmptyDict
    /\ outcome = "TankError:path"

\* get_entries_from_path has failed on the lookup of the leaf, after the
\* nodes above were found.
C19_WitnessPath ==
    /\ op = "path"
    /\ pc = "done"
    /\ outcome = "TankError:lookup"
    /\ local.idx = 3

-----------------------------------------------------------------------------
\* The node and the caller's map across the passes

\* A step leaves the filters, the entity type and the flag of every node as
\* they were
NodesKept ==
    \A n \in Nodes :
        /\ node'[n].filters = node[n].filters
        /\ node'[n].entity_type = node[n].entity_type
        /\ node'[n].create_with_parent = node[n].create_with_parent

\* After a step of create_folders or of extract_shotgun_data_upwards the
\* map the caller holds is the map it passed
InputKept ==
    /\ op' = "create" => caller' = args'.sg_data
    /\ op' = "extract" => caller' = args'.shotgun_data

C20_WitnessExtract ==
    /\ op = "extract"
    /\ outcome = "ok"
    /\ queries # <<>>
    /\ result # Dict(args.shotgun_data)
    /\ caller = args.shotgun_data

\* get_entity_from_fields has queried the site with the filters of a node
\* that has conditions, and has raised
C20_WitnessFields ==
    /\ op = "fields"
    /\ outcome = "TankError:lookup"
    /\ node[args.n].filters.conditions # <<>>
    /\ queries # <<>>

\* create_folders has put the current user in its map
C20_WitnessUser ==
    /\ op = "create"
    /\ pc = "done"
    /\ local.processed
    /\ local.asked
    /\ outcome \notin {"TankError:user", "TankError:token"}
    /\ caller = args.sg_data

-----------------------------------------------------------------------------
\* Extraction run again on its own result

\* The second call of extract_shotgun_data_upwards, on the map the first
\* call returned, has ended
SecondExtractDone ==
    /\ op = "extract"
    /\ pc = "done"
    /\ "first" \in DOMAIN args

-----------------------------------------------------------------------------
\* The calls on the io_receiver while folders are created

\* The calls the claim has create_folders issue for one candidate: the
\* linked entities of the name, the folder with the link of the candidate,
\* the files, and the symlinks with the map that holds the candidate
ExpectedEvents(entity) ==
    LET item == ExpectedItem(entity)
        links == SeqOfSet(GetShotgunLinkFields(node[args.n].expression))
        name_field == GetSgEntityNameField(node[args.n].entity_type)
    IN [i \in DOMAIN links |->
           SinkEvent("register_secondary_entity", item[1], entity.d[links[i]])]
       \o <<SinkEvent("make_entity_folder", item[1],
                      Dict([type |-> Str(node[args.n].entity_type),
                            id |-> entity.d.id,
                            name |-> entity.d[name_field]])),
            SinkEvent("copy_files", item[1], None),
            SinkEvent("process_symlinks", item[1], Dict(item[2]))>>

\* The calls for the first k candidates, one candidate after the other
ExpectedEventsUpTo(k) ==
    LET RECURSIVE upTo(_)
        upTo(i) == IF i = 0 THEN <<>>
                   ELSE upTo(i - 1) \o ExpectedEvents(local.entities[i])
    IN upTo(k)

\* C22 as stated: the calls create_folders has issued are, for each
\* candidate it has handled and in the order of the candidates, the
\* registrations of the linked entities of the name, then the folder with
\* the link {type, id, name} of the candidate, then the copy of the files,
\* then the symlinks with the map that holds the fields of the candidate
\* and computed_name
C22_SinkEventOrder ==
    (/\ op = "create"
     /\ local.processed
     /\ CandidatesNamed) =>
        events = ExpectedEventsUpTo(local.idx - 1)

\* The same for a map that holds a record for the level of the node
C22_SinkEventOrderWhenSeeded ==
    (/\ op = "create"
     /\ local.processed
     /\ CandidatesNamed
     /\ node[args.n].entity_type \in DOMAIN args.sg_data
     /\ IsDict(args.sg_data[node[args.n].entity_type])) =>
        events = ExpectedEventsUpTo(local.idx - 1)

-----------------------------------------------------------------------------
\* The conditions of a node in the lookup of the walk upwards

\* the elements of a sequence
Elements(seq) == {seq[i] : i \in DOMAIN seq}

\* a condition with a token among its values
HasToken(c) == \E j \in DOMAIN c.values : IsToken(c.values[j])

\* the lookups by id with the conditions of the node that the walk has
\* issued on the level of node n
LookupsOf(n) ==
    {i \in DOMAIN queries : /\ queries[i].entity_type = node[n].entity_type
                            /\ queries[i].fields # {}}

\* The conditions of node n are in the lookup q, or are left out of it,
\* by their class; tokened(c) tells the conditions with a token
PartitionedIn(n, q, tokened(_)) ==
    \A c \in Elements(node[n].filters.conditions) :
        /\ (Len(c.values) # 0 /\ ~tokened(c) /\ ~StartsWithFrom(c.path)) =>
               c \in Elements(q.conditions)
        /\ StartsWithFrom(c.path) =>
               c \notin Elements(q.conditions) /\ c.path \notin q.fields
        /\ (tokened(c) /\ ~StartsWithFrom(c.path)) =>
               c \notin Elements(q.conditions) /\ c.path \in q.fields

\* The first node of the walk has been visited without an error: the level
\* of every token of its conditions without the marker is in the map, and
\* a level that only a condition with the marker names, and that the
\* caller's map did not hold, is not
PropagatedFrom(n, tokened(_)) ==
    \A c \in Elements(node[n].filters.conditions) :
        \A j \in DOMAIN c.values :
            IsToken(c.values[j]) =>
                IF StartsWithFrom(c.path)
                THEN (/\ GetSgDataKey(c.values[j]) \notin DOMAIN args.shotgun_data
                      /\ \A d \in Elements(node[n].filters.conditions) :
                             d # c => ~HasToken(d))
                         => GetSgDataKey(c.values[j]) \notin DOMAIN local.tokens
                ELSE tokened(c) => GetSgDataKey(c.values[j]) \in DOMAIN local.tokens

\* the walk has visited its first node, whose level has an entry, and
\* nothing was raised there
FirstVisitDone ==
    /\ op = "extract"
    /\ Len(local.visited) = 1
    /\ outcome \in {"none", "ok"}
    /\ SgDataKeyForFolderObj(LastVisited) \in DOMAIN args.shotgun_data

\* C23 as stated: in extract_shotgun_data_upwards every condition of the
\* node with a value, without a token and without the $FROM$ marker is in
\* the lookup of the level; a condition with the marker is not in the
\* lookup, its field is not fetched and it brings no level into the map; a
\* condition with a token is not in the lookup, its field is fetched and
\* the level of its token is brought into the map
C23_FilterPartition ==
    op = "extract" =>
        /\ \A n \in Elements(local.visited) : \A i \in LookupsOf(n) :
               PartitionedIn(n, queries[i], HasToken)
        /\ FirstVisitDone => PropagatedFrom(LastVisited, HasToken)

\* The same with the class of a condition told by its first value alone
C23_FilterPartitionByFirstValue ==
    op = "extract" =>
        /\ \A n \in Elements(local.visited) : \A i \in LookupsOf(n) :
               PartitionedIn(n, queries[i], LAMBDA c : IsToken(c.values[1]))
        /\ FirstVisitDone =>
               PropagatedFrom(LastVisited, LAMBDA c : IsToken(c.values[1]))

-----------------------------------------------------------------------------
\* The promotion of the value of a link field to the level of its token

\* The visit of the node the walk has reached promotes a value: the node
\* has one condition with a token, its record is there after the lookup
\* and holds a value for the field, and a link is of the type of the level
\* it goes to
PromotionStep ==
    /\ op = "extract"
    /\ pc = "visit"
    /\ local'.visited = Append(local.visited, local.cur)
    /\ Len(LinkMap(local.cur)) = 1
    /\ Len(queries') < Len(queries) + 2
    /\ LET key == SgDataKeyForFolderObj(local.cur)
           entry == LinkMap(local.cur)[1]
       IN /\ key \in DOMAIN local'.tokens
          /\ IsDict(local'.tokens[key])
          /\ "id" \in DOMAIN local'.tokens[key].d
          /\ ExtractFields(local.cur) \subseteq DOMAIN local'.tokens[key].d
          /\ local'.tokens[key].d[entry.field] # None
          /\ IsDict(local'.tokens[key].d[entry.field]) =>
                 /\ "type" \in DOMAIN local'.tokens[key].d[entry.field].d
                 /\ local'.tokens[key].d[entry.field].d.type
                        = Str(TokenEntityType(entry.link_obj))

\* the value that the step promotes
PromotedValue ==
    local'.tokens[SgDataKeyForFolderObj(local.cur)].d[LinkMap(local.cur)[1].field]

\* the key of the level the value goes to
PromotedKey == GetSgDataKey(LinkMap(local.cur)[1].link_obj)

\* The slot after the merge of value, as the claim has it; prior is the
\* slot before, present telling whether there was one
MergedSlot(present, prior, value) ==
    IF IsDict(value)
    THEN IF present /\ IsDict(prior)
         THEN Dict([f \in (DOMAIN prior.d) \cup (DOMAIN value.d) |->
                       IF f \in DOMAIN value.d THEN value.d[f] ELSE prior.d[f]])
         ELSE value
    ELSE IF IsList(value)
    THEN IF present /\ IsList(prior) THEN List(prior.l \o value.l) ELSE value
    ELSE value

\* the slot and the value are of one shape, or there is no slot
SameShape(present, prior, value) ==
    \/ ~present
    \/ IsDict(value) /\ IsDict(prior)
    \/ IsList(value) /\ IsList(prior)
    \/ ~IsDict(value) /\ ~IsList(value)

\* The step ends without an error and leaves the merged value in the slot;
\* needed tells the steps the statement is about
MergeDone(needed(_, _, _)) ==
    PromotionStep =>
        LET present == PromotedKey \in DOMAIN local.tokens
            prior == IF present THEN local.tokens[PromotedKey] ELSE None
        IN needed(present, prior, PromotedValue) =>
              /\ outcome' \in {"none", "ok"}
              /\ PromotedKey \in DOMAIN local'.tokens
              /\ SameShape(present, prior, PromotedValue) =>
                     local'.tokens[PromotedKey]
                         = MergedSlot(present, prior, PromotedValue)

\* C24 as stated: the promotion merges the fields of a single link into
\* the slot of the level and keeps the other fields of the slot, appends a
\* list to the list of the slot, puts a scalar in place of the slot and
\* makes a slot that is not there, and it ends without an error whatever
\* the slot held before and whatever the shape of the value
C24_PromotionMerge ==
    [][MergeDone(LAMBDA present, prior, value : TRUE)]_vars

\* The same for a slot that is absent or of the shape of the value
C24_PromotionMergeSameShape == [][MergeDone(SameShape)]_vars

-----------------------------------------------------------------------------
\* The length of the walk upwards and the number of its lookups

\* the walk is at a node
WalkRunning == op = "extract" /\ pc = "visit"

\* the level of the node the walk is at holds every field the walk needs
HoldsRequiredFields ==
    /\ SgDataKeyForFolderObj(local.cur) \in DOMAIN local.tokens
    /\ IsDict(local.tokens[SgDataKeyForFolderObj(local.cur)])
    /\ ExtractFields(local.cur)
           \subseteq DOMAIN local.tokens[SgDataKeyForFolderObj(local.cur)].d

\* The lookups of one visit: none when the level holds every field, else
\* at most the lookup by id with the plain conditions of the node and,
\* when it returned nothing, the lookup by id alone
LookupsOfVisit ==
    LET new == SubSeq(queries', Len(queries) + 1, Len(queries'))
    IN /\ SubSeq(queries', 1, Len(queries)) = queries
       /\ HoldsRequiredFields => new = <<>>
       /\ Len(new) <= 2
       /\ \A i \in DOMAIN new :
              /\ new[i].method = "find_one"
              /\ new[i].entity_type = node[local.cur].entity_type
              /\ new[i].conditions[Len(new[i].conditions)].path = "id"
       /\ Len(new) = 2 =>
              /\ new[1].returned = None
              /\ Len(new[2].conditions) = 1

\* A visit is of the node next in the order from the starting node to the
\* root, a node not visited before, and after it the walk is at the parent
\* or has ended: returned at the root, or raised
VisitInOrder ==
    /\ local.cur = args.n - Len(local.visited)
    /\ local.cur >= 1
    /\ local'.visited = Append(local.visited, local.cur)
    /\ \/ pc' = "visit" /\ local.cur > 1 /\ local'.cur = Parent(local.cur)
                        /\ outcome' = "none"
       \/ pc' = "done" /\ outcome' = "ok" /\ local.cur = 1
       \/ pc' = "done" /\ outcome' \notin {"ok", "none"}

\* C25: the walk of extract_shotgun_data_upwards visits the nodes from the
\* starting node to the root one after the other, each once, and then
\* returns, unless a visit raises; a visit of a level whose record holds
\* every required field issues no lookup, and any other visit at most two,
\* the second being the lookup by id alone after the first returned
\* nothing. Each visit ends the walk or moves it one node up, so a walk
\* from node n ends with its n-th visit at the latest
C25_WalkEndsWithinQueryBound ==
    [][WalkRunning => (VisitInOrder /\ LookupsOfVisit)]_vars

\* A walk from the shot has returned at the root after three visits with
\* one lookup on each level
C25_Witness ==
    /\ op = "extract"
    /\ outcome = "ok"
    /\ local.visited = <<3, 2, 1>>
    /\ Len(queries) = 3

\* A walk has raised after the two lookups of one level
C25_WitnessTwoLookups ==
    /\ op = "extract"
    /\ pc = "done"
    /\ outcome \notin {"ok", "none"}
    /\ Len(queries) >= 2
    /\ queries[Len(queries) - 1].returned = None
    /\ Len(queries[Len(queries)].conditions) = 1

\* A walk has returned without a lookup: every level held its fields
C25_WitnessNoLookup ==
    /\ op = "extract"
    /\ outcome = "ok"
    /\ Len(local.visited) >= 2
    /\ queries = <<>>
    /\ SgDataKeyForFolderObj(args.n) \in DOMAIN args.shotgun_data

====
